---- MODULE Spec2Model ----
(***************************************************************************)
(* LedStripController: the ASCII command protocol (include/protocol.h) and *)
(* the serial poll loop that feeds it (src/main.cpp).                      *)
(*                                                                         *)
(* Bytes are the integers 0..255; a C string is the bytes up to the first  *)
(* NUL.  A proto_pkt_t is modelled as its bytes in memory, so that a write *)
(* one past an array lands where the struct layout puts it.                *)
(***************************************************************************)
EXTENDS Integers, Sequences, FiniteSets, TLC

(* ---------------------------------------------------------------------- *)
(* protocol.h: limits, error codes and framing characters                 *)
(* ---------------------------------------------------------------------- *)
MAX_PROTO_PACKET_LEN == 256
MAX_PROTO_CMD == 10
MAX_PROTO_PARAM_COUNT == 4
MAX_PROTO_PARAM_LEN == 50

ERR_PROTO_SUCCESS == 0
ERR_PROTO_CP_MISSING_STX == -101
ERR_PROTO_CP_MISSING_EFC == -104
ERR_PROTO_CP_CMD_OVERFLOW == -105
ERR_PROTO_CP_CMD_NOT_IMP == -106
ERR_PROTO_CP_CMD_UNKNOWN == -107
ERR_PROTO_CP_MISSING_PARAMS == -108
ERR_PROTO_CP_CRC16_MISMATCH == -110
ERR_PROTO_CP_MISSING_CRC16 == -111
ERR_PROTO_RB_TOO_MANY_PARAMS == -201
ERR_PROTO_RB_PARAM_OVERFLOW == -202

PROTO_STX == 91
PROTO_ETX == 93
PROTO_PSC == 58
PROTO_CR == 13
PROTO_NL == 10

MAX_INPUT_BUFFER_LEN == MAX_PROTO_PACKET_LEN

(* ---------------------------------------------------------------------- *)
(* Fixed-width arithmetic                                                  *)
(* ---------------------------------------------------------------------- *)
U8(n) == n % 256
U16(n) == n % 65536
\* int16_t read of a 16-bit pattern
I16(n) == IF U16(n) >= 32768 THEN U16(n) - 65536 ELSE U16(n)

RECURSIVE Xor(_, _)
Xor(a, b) ==
    IF a = 0 THEN b
    ELSE IF b = 0 THEN a
    ELSE (((a % 2) + (b % 2)) % 2) + (2 * Xor(a \div 2, b \div 2))

CRC16_table ==
    <<
    0, 4129, 8258, 12387, 16516, 20645, 24774, 28903,
    33032, 37161, 41290, 45419, 49548, 53677, 57806, 61935,
    4657, 528, 12915, 8786, 21173, 17044, 29431, 25302,
    37689, 33560, 45947, 41818, 54205, 50076, 62463, 58334,
    9314, 13379, 1056, 5121, 25830, 29895, 17572, 21637,
    42346, 46411, 34088, 38153, 58862, 62927, 50604, 54669,
    13907, 9842, 5649, 1584, 30423, 26358, 22165, 18100,
    46939, 42874, 38681, 34616, 63455, 59390, 55197, 51132,
    18628, 22757, 26758, 30887, 2112, 6241, 10242, 14371,
    51660, 55789, 59790, 63919, 35144, 39273, 43274, 47403,
    23285, 19156, 31415, 27286, 6769, 2640, 14899, 10770,
    56317, 52188, 64447, 60318, 39801, 35672, 47931, 43802,
    27814, 31879, 19684, 23749, 11298, 15363, 3168, 7233,
    60846, 64911, 52716, 56781, 44330, 48395, 36200, 40265,
    32407, 28342, 24277, 20212, 15891, 11826, 7761, 3696,
    65439, 61374, 57309, 53244, 48923, 44858, 40793, 36728,
    37256, 33193, 45514, 41451, 53516, 49453, 61774, 57711,
    4224, 161, 12482, 8419, 20484, 16421, 28742, 24679,
    33721, 37784, 41979, 46042, 49981, 54044, 58239, 62302,
    689, 4752, 8947, 13010, 16949, 21012, 25207, 29270,
    46570, 42443, 38312, 34185, 62830, 58703, 54572, 50445,
    13538, 9411, 5280, 1153, 29798, 25671, 21540, 17413,
    42971, 47098, 34713, 38840, 59231, 63358, 50973, 55100,
    9939, 14066, 1681, 5808, 26199, 30326, 17941, 22068,
    55628, 51565, 63758, 59695, 39368, 35305, 47498, 43435,
    22596, 18533, 30726, 26663, 6336, 2273, 14466, 10403,
    52093, 56156, 60223, 64286, 35833, 39896, 43963, 48026,
    19061, 23124, 27191, 31254, 2801, 6864, 10931, 14994,
    64814, 60687, 56684, 52557, 48554, 44427, 40424, 36297,
    31782, 27655, 23652, 19525, 15522, 11395, 7392, 3265,
    61215, 65342, 53085, 57212, 44955, 49082, 36825, 40952,
    28183, 32310, 20053, 24180, 11923, 16050, 3793, 7920
    >>

\* a step that drops the low byte of the register
crc16_NoShift(crc, data) ==
    CRC16_table[(Xor(crc \div 256, U8(data)) % 256) + 1]

\* uint16_t crc16(uint16_t crc, uint8_t data)
crc16(crc, data) ==
    U16(Xor(CRC16_table[(Xor(crc \div 256, U8(data)) % 256) + 1], U16(crc * 256)))

\* the least element of a non-empty set of integers
Least(S) == CHOOSE x \in S : \A y \in S : x <= y

\* "for (i = lo; i <= hi; i++) crc = crc16(crc, bytes[i])" on a 1-based sequence.
\* The iterations are evaluated as two halves, the second starting from the
\* first's result: the same left-to-right fold, in logarithmic nesting depth
\* (the test on first, always true, makes the first half be evaluated before
\* the second is entered).
RECURSIVE crc16_range(_, _, _, _)
crc16_range(crc, bytes, lo, hi) ==
    IF lo > hi THEN crc
    ELSE IF lo = hi THEN crc16(crc, bytes[lo])
    ELSE LET mid == (lo + hi) \div 2
             first == crc16_range(crc, bytes, lo, mid)
         IN  IF first >= 0 THEN crc16_range(first, bytes, mid + 1, hi) ELSE first

\* the CRC folded over a whole byte sequence
crc16_seq(crc, bytes) == crc16_range(crc, bytes, 1, Len(bytes))

\* crc16_buffer(crc, data, start, len): data is a 1-based sequence holding the
\* C array from index 0; folds the C indices start..len-1.
crc16_buffer(crc, data, start, len) ==
    crc16_range(crc, data, start + 1, len)

(* ---------------------------------------------------------------------- *)
(* Memory.  A block of bytes is the function from the offsets of its      *)
(* non-zero bytes to their values: Byte reads an offset, Poke stores one.  *)
(*                                                                         *)
(* proto_pkt_t as memory.  mem holds the struct's bytes: cmd at 0..9, the  *)
(* four parameter slots at 10..209, param_count at 210, one padding byte,  *)
(* crc16 (little endian) at 212..213.  oow is history only: the writes     *)
(* made outside the array being filled, as <<array, slot, index>>.         *)
(* ---------------------------------------------------------------------- *)
ZeroMem == [j \in {} |-> 0]
Byte(m, j) == IF j \in DOMAIN m THEN m[j] ELSE 0
Poke(m, j, b) ==
    IF U8(b) = 0 THEN [k \in (DOMAIN m) \ {j} |-> m[k]]
    ELSE [k \in (DOMAIN m) \cup {j} |-> IF k = j THEN U8(b) ELSE m[k]]
\* memset(m + off, 0, n)
Zero(m, off, n) == [k \in {j \in DOMAIN m : j < off \/ j >= off + n} |-> m[k]]
\* the bytes of the 1-based sequence src stored from offset off on
Store(m, off, src) ==
    LET at(j) == IF j >= off /\ j < off + Len(src) THEN U8(src[j - off + 1])
                 ELSE Byte(m, j)
    IN  [k \in {j \in (DOMAIN m) \cup (off..(off + Len(src) - 1)) : at(j) # 0} |-> at(k)]

OFF_CMD == 0
OFF_PARAMS == OFF_CMD + MAX_PROTO_CMD
OFF_PARAM_COUNT == OFF_PARAMS + MAX_PROTO_PARAM_COUNT * MAX_PROTO_PARAM_LEN
OFF_CRC16 == OFF_PARAM_COUNT + 2
PKT_SIZE == OFF_CRC16 + 2

ParamOff(slot, idx) == OFF_PARAMS + slot * MAX_PROTO_PARAM_LEN + idx

\* one byte stored at struct offset off; a store past the struct hits other memory
PktWrite(pkt, off, b) ==
    IF off < PKT_SIZE
    THEN [pkt EXCEPT !.mem = Poke(@, off, b)]
    ELSE [pkt EXCEPT !.oow = @ \cup {<<"wild", 0, off>>}]

\* pkt->cmd[i] = b
CmdWrite(pkt, i, b) ==
    LET w == PktWrite(pkt, OFF_CMD + i, b)
    IN  IF i < MAX_PROTO_CMD THEN w
        ELSE [w EXCEPT !.oow = @ \cup {<<"cmd", 0, i>>}]

\* pkt->params[slot][idx] = b
ParamWrite(pkt, slot, idx, b) ==
    LET w == PktWrite(pkt, ParamOff(slot, idx), b)
    IN  IF slot < MAX_PROTO_PARAM_COUNT /\ idx < MAX_PROTO_PARAM_LEN THEN w
        ELSE [w EXCEPT !.oow = @ \cup {<<"param", slot, idx>>}]

param_count(pkt) == Byte(pkt.mem, OFF_PARAM_COUNT)
pkt_crc16(pkt) == Byte(pkt.mem, OFF_CRC16) + 256 * Byte(pkt.mem, OFF_CRC16 + 1)

SetParamCount(pkt, n) == [pkt EXCEPT !.mem = Poke(@, OFF_PARAM_COUNT, n)]
SetCrc16(pkt, c) ==
    [pkt EXCEPT !.mem = Poke(Poke(@, OFF_CRC16, U16(c) % 256),
                             OFF_CRC16 + 1, U16(c) \div 256)]

\* the C string that starts at struct offset off: the bytes up to the first NUL
\* (the read stops at the end of the struct)
CStrAt(pkt, off) ==
    LET end == Least({j \in off..PKT_SIZE : j = PKT_SIZE \/ Byte(pkt.mem, j) = 0})
    IN  [k \in 1..(end - off) |-> Byte(pkt.mem, off + k - 1)]

\* pkt->cmd and pkt->params[k] read as C strings
cmd(pkt) == CStrAt(pkt, OFF_CMD)
params(pkt, k) == CStrAt(pkt, ParamOff(k, 0))

\* memset(dst, 0, n) at struct offset off
ZeroRange(pkt, off, n) == [pkt EXCEPT !.mem = Zero(@, off, n)]

\* a clear that leaves crc16 alone
proto_clear_pkt_KeepsCrc(pkt) ==
    SetParamCount(
        ZeroRange(ZeroRange(pkt, OFF_CMD, MAX_PROTO_CMD),
                  OFF_PARAMS, MAX_PROTO_PARAM_COUNT * MAX_PROTO_PARAM_LEN),
        0)

proto_clear_pkt(pkt) ==
    SetCrc16(SetParamCount(
        ZeroRange(ZeroRange(pkt, OFF_CMD, MAX_PROTO_CMD),
                  OFF_PARAMS, MAX_PROTO_PARAM_COUNT * MAX_PROTO_PARAM_LEN),
        0), 0)

\* a zero-initialised (global) proto_pkt_t
ZeroPkt == [mem |-> ZeroMem, oow |-> {}]

(* ---------------------------------------------------------------------- *)
(* strtol(s, &endPtr, 16) as the C library of the target (newlib) does it: *)
(* leading white space, an optional sign, an optional 0x, then the hex     *)
(* digits.  moved is endPtr != s: at least one digit was converted.  long  *)
(* has 32 bits on the target: a value out of range is LONG_MAX or LONG_MIN.*)
(* ---------------------------------------------------------------------- *)
IsSpace(b) == b \in (9..13) \cup {32}
IsHex(b) == b \in (48..57) \cup (65..70) \cup (97..102)
HexVal(b) == IF b <= 57 THEN b - 48 ELSE IF b <= 70 THEN b - 55 ELSE b - 87

RECURSIVE SkipSpace(_)
SkipSpace(s) ==
    IF s # << >> /\ IsSpace(Head(s)) THEN SkipSpace(Tail(s)) ELSE s

LONG_MAX == 2147483647

\* the digit loop: acc is the value so far, n the digits read, sat whether the
\* value left the range of long
RECURSIVE HexAcc(_, _, _, _)
HexAcc(s, acc, n, sat) ==
    IF s # << >> /\ IsHex(Head(s))
    THEN IF sat \/ acc > (LONG_MAX - HexVal(Head(s))) \div 16
         THEN HexAcc(Tail(s), acc, n + 1, TRUE)
         ELSE HexAcc(Tail(s), acc * 16 + HexVal(Head(s)), n + 1, FALSE)
    ELSE [acc |-> acc, n |-> n, sat |-> sat]

strtol16(s) ==
    LET a == SkipSpace(s)
        neg == a # << >> /\ Head(a) = 45
        b == IF a # << >> /\ Head(a) \in {43, 45} THEN Tail(a) ELSE a
        c == IF Len(b) >= 2 /\ b[1] = 48 /\ b[2] \in {120, 88}
             THEN SubSeq(b, 3, Len(b)) ELSE b
        r == HexAcc(c, 0, 0, FALSE)
    IN  [val |-> IF r.sat THEN (IF neg THEN (0 - LONG_MAX) - 1 ELSE LONG_MAX)
                 ELSE IF neg THEN 0 - r.acc ELSE r.acc,
         moved |-> r.n > 0]

\* the bytes of a sequence up to its first NUL
RECURSIVE UpToNul(_)
UpToNul(s) ==
    IF s = << >> \/ Head(s) = 0 THEN << >> ELSE <<Head(s)>> \o UpToNul(Tail(s))

(* ---------------------------------------------------------------------- *)
(* proto_parse_pkt_buffer.  buffer is a 1-based sequence holding the C     *)
(* array from index 0 and, after its len bytes, the byte that follows them *)
(* in memory (the code reads buffer[len] when the frame ends without ETX). *)
(* env.crc_check is the build: FALSE when DISABLE_CRC16 is defined.        *)
(* env.stack is what follows crc16Hex[4] on the stack: strtol reads on     *)
(* into it when all four bytes of crc16Hex are in use (no NUL).            *)
(* ---------------------------------------------------------------------- *)

\* a scan that stops one byte early when it finds no '['
FindSTX_StopEarly(buffer, len) ==
    LET found == {k \in 0..(len - 1) : buffer[k + 1] = PROTO_STX}
    IN  IF found # {}
        THEN [pbi |-> Least(found) + 1, si |-> Least(found)]
        ELSE [pbi |-> len - 1, si |-> len - 2]

\* a scan that does not count the skipped bytes: the CRC range starts at 0
FindSTX_NoSi(buffer, len) ==
    LET found == {k \in 0..(len - 1) : buffer[k + 1] = PROTO_STX}
    IN  IF found # {}
        THEN [pbi |-> Least(found) + 1, si |-> 0]
        ELSE [pbi |-> len, si |-> 0]

\* while(buffer[pbi++] != PROTO_STX && pbi < len) { si++; }   from pbi = si = 0.
\* The loop reads buffer[0], buffer[1], ... and leaves at the first STX (index
\* k: pbi = k + 1 after the post-increment, si = k) or, with none among the
\* len bytes, when pbi reaches len (si = len - 1).
FindSTX(buffer, len) ==
    LET found == {k \in 0..(len - 1) : buffer[k + 1] = PROTO_STX}
    IN  IF found # {}
        THEN [pbi |-> Least(found) + 1, si |-> Least(found)]
        ELSE [pbi |-> len, si |-> len - 1]

\* a copy loop whose condition forgets the cap on the destination index
CopyCount_NoCap(buffer, len, pbi, cap) ==
    Least({n \in 0..len :
              \/ pbi + n >= len
              \/ buffer[pbi + n + 1] = PROTO_PSC
              \/ buffer[pbi + n + 1] = PROTO_ETX})

\* How many times the body of
\*   while(pbi < len && n < cap && buffer[pbi] != PROTO_PSC && buffer[pbi] != PROTO_ETX)
\* runs from pbi with n = 0 (the body advances pbi and n by one): the loop
\* condition reads the buffer only, so the count is fixed when the loop starts.
CopyCount(buffer, len, pbi, cap) ==
    Least({n \in 0..cap :
              \/ pbi + n >= len
              \/ n >= cap
              \/ buffer[pbi + n + 1] = PROTO_PSC
              \/ buffer[pbi + n + 1] = PROTO_ETX})

\* pkt->cmd[i] = buffer[pbi + i] for i = lo..hi, in order (evaluated as halves)
RECURSIVE CopyCmd(_, _, _, _, _)
CopyCmd(pkt, buffer, pbi, lo, hi) ==
    IF lo > hi THEN pkt
    ELSE IF lo = hi THEN CmdWrite(pkt, lo, buffer[pbi + lo + 1])
    ELSE LET mid == (lo + hi) \div 2
             first == CopyCmd(pkt, buffer, pbi, lo, mid)
         IN  IF param_count(first) >= 0
             THEN CopyCmd(first, buffer, pbi, mid + 1, hi) ELSE first

\* the command-name loop and the terminating pkt->cmd[i] = 0x0
ParseCmd(buffer, len, pkt, pbi) ==
    LET i == CopyCount(buffer, len, pbi, MAX_PROTO_CMD)
    IN  [pkt |-> CmdWrite(CopyCmd(pkt, buffer, pbi, 0, i - 1), i, 0),
         pbi |-> pbi + i, i |-> i]

\* pkt->params[pkt->param_count][pci] = buffer[pbi + pci] for pci = lo..hi, in
\* order; param_count is read from the packet at every store
RECURSIVE CopyParam(_, _, _, _, _)
CopyParam(pkt, buffer, pbi, lo, hi) ==
    IF lo > hi THEN pkt
    ELSE IF lo = hi THEN ParamWrite(pkt, param_count(pkt), lo, buffer[pbi + lo + 1])
    ELSE LET mid == (lo + hi) \div 2
             first == CopyParam(pkt, buffer, pbi, lo, mid)
         IN  IF param_count(first) >= 0
             THEN CopyParam(first, buffer, pbi, mid + 1, hi) ELSE first

\* the inner while of the parameter loop
ParseParamChars(buffer, len, pkt, pbi) ==
    LET pci == CopyCount(buffer, len, pbi, MAX_PROTO_PARAM_LEN)
    IN  [pkt |-> CopyParam(pkt, buffer, pbi, 0, pci - 1), pbi |-> pbi + pci, pci |-> pci]

\* the do ... while over the parameters; pbi is on a PROTO_PSC (or on the byte
\* at which the previous parameter stopped) when an iteration starts
RECURSIVE ParseParams(_, _, _, _)
ParseParams(buffer, len, pkt, pbi) ==
    LET r == ParseParamChars(buffer, len, pkt, pbi + 1)
        t == ParamWrite(r.pkt, param_count(r.pkt), r.pci, 0)
        c == SetParamCount(t, param_count(t) + 1)
    IN  IF /\ r.pbi < len
           /\ buffer[r.pbi + 1] # PROTO_ETX
           /\ param_count(c) < MAX_PROTO_PARAM_COUNT
        THEN ParseParams(buffer, len, c, r.pbi)
        ELSE [pkt |-> c, pbi |-> r.pbi]

\* a tail that checks the CRC in every build
ParseTail_AlwaysChecks(buffer, len, pkt, si, pbi0, env) ==
    LET pbi == IF buffer[pbi0 + 1] = PROTO_ETX THEN pbi0 + 1 ELSE pbi0
        p == SetCrc16(pkt, crc16_buffer(pkt_crc16(pkt), buffer, si, pbi))
        n == IF pbi < len THEN (IF len - pbi < 4 THEN len - pbi ELSE 4) ELSE 0
        crc16Hex == SubSeq(buffer, pbi + 1, pbi + n)
        str == UpToNul(IF n = 4 THEN crc16Hex \o env.stack ELSE crc16Hex)
        conv == strtol16(str)
        crc16In == U16(conv.val)
    IN  IF ~conv.moved /\ crc16In = 0 /\ pkt_crc16(p) # 0
        THEN [ret |-> ERR_PROTO_CP_MISSING_CRC16, pkt |-> p]
        ELSE IF crc16In # pkt_crc16(p)
        THEN [ret |-> ERR_PROTO_CP_CRC16_MISMATCH, pkt |-> p]
        ELSE [ret |-> pbi + n, pkt |-> p]

\* from "if(buffer[pbi] == PROTO_ETX) pbi++" to the return
ParseTail(buffer, len, pkt, si, pbi0, env) ==
    LET pbi == IF buffer[pbi0 + 1] = PROTO_ETX THEN pbi0 + 1 ELSE pbi0
    IN  IF ~env.crc_check THEN [ret |-> pbi, pkt |-> pkt]
        ELSE
        LET p == SetCrc16(pkt, crc16_buffer(pkt_crc16(pkt), buffer, si, pbi))
            n == IF pbi < len THEN (IF len - pbi < 4 THEN len - pbi ELSE 4) ELSE 0
            crc16Hex == SubSeq(buffer, pbi + 1, pbi + n)
            str == UpToNul(IF n = 4 THEN crc16Hex \o env.stack ELSE crc16Hex)
            conv == strtol16(str)
            crc16In == U16(conv.val)
        IN  IF ~conv.moved /\ crc16In = 0 /\ pkt_crc16(p) # 0
            THEN [ret |-> ERR_PROTO_CP_MISSING_CRC16, pkt |-> p]
            ELSE IF crc16In # pkt_crc16(p)
            THEN [ret |-> ERR_PROTO_CP_CRC16_MISMATCH, pkt |-> p]
            ELSE [ret |-> pbi + n, pkt |-> p]

\* proto_parse_pkt_buffer after its "if(len <= 0) return 0;"
ParseFrame(buffer, len, pkt, env) ==
    LET p0 == SetCrc16(pkt, 0)
        f == FindSTX(buffer, len)
    IN  IF f.pbi >= len THEN [ret |-> ERR_PROTO_CP_MISSING_STX, pkt |-> p0]
        ELSE
        LET c == ParseCmd(buffer, len, p0, f.pbi)
        IN  IF c.pbi >= len THEN [ret |-> ERR_PROTO_CP_MISSING_EFC, pkt |-> c.pkt]
            ELSE IF c.i >= MAX_PROTO_CMD
            THEN [ret |-> ERR_PROTO_CP_CMD_OVERFLOW, pkt |-> c.pkt]
            ELSE IF buffer[c.pbi + 1] = PROTO_ETX
            THEN ParseTail(buffer, len, c.pkt, f.si, c.pbi, env)
            ELSE LET q == ParseParams(buffer, len, c.pkt, c.pbi)
                 IN  ParseTail(buffer, len, q.pkt, f.si, q.pbi, env)

\* the index pbi at which "if(buffer[pbi] == PROTO_ETX) pbi++" reads the
\* buffer, or -1 when the function returns before that statement
EtxTestIndex(buffer, len, pkt) ==
    IF len <= 0 THEN -1
    ELSE
    LET f == FindSTX(buffer, len)
    IN  IF f.pbi >= len THEN -1
        ELSE
        LET c == ParseCmd(buffer, len, SetCrc16(pkt, 0), f.pbi)
        IN  IF c.pbi >= len \/ c.i >= MAX_PROTO_CMD THEN -1
            ELSE IF buffer[c.pbi + 1] = PROTO_ETX THEN c.pbi
            ELSE ParseParams(buffer, len, c.pkt, c.pbi).pbi

\* a decoder without the test for an empty frame
proto_parse_pkt_buffer_NoLenTest(buffer, len, pkt, env) ==
    ParseFrame(buffer, len, pkt, env)

proto_parse_pkt_buffer(buffer, len, pkt, env) ==
    IF len <= 0 THEN [ret |-> 0, pkt |-> pkt]
    ELSE ParseFrame(buffer, len, pkt, env)

(* ---------------------------------------------------------------------- *)
(* Response building and printing                                          *)
(* ---------------------------------------------------------------------- *)

\* the digits of n >= 0 in the given base, upper case (Serial.print(n, HEX), "%d")
RECURSIVE Digits(_, _)
Digits(n, base) ==
    LET d == n % base
        ch == IF d < 10 THEN 48 + d ELSE 55 + d
    IN  IF n < base THEN <<ch>> ELSE Digits(n \div base, base) \o <<ch>>

HexStr(n) == Digits(n, 16)
\* sprintf("%d") of an int16_t
DecStr(n) == IF n < 0 THEN <<45>> \o Digits(0 - n, 10) ELSE Digits(n, 10)

\* the bytes of src stored from struct offset off on (no terminator); every
\* caller stores inside the struct
StoreAt(pkt, off, src) == [pkt EXCEPT !.mem = Store(@, off, src)]

\* strlcpy(dst, src, size) with dst at struct offset off: at most size - 1 bytes
\* of src and a terminating NUL
strlcpy(pkt, off, src, size) ==
    LET n == IF Len(src) < size - 1 THEN Len(src) ELSE size - 1
    IN  PktWrite(StoreAt(pkt, off, SubSeq(src, 1, n)), off + n, 0)

\* an append that counts the parameter before it tests the length
proto_append_response_pkt_param_CountsFirst(pkt_rsp, param) ==
    IF param_count(pkt_rsp) + 1 > MAX_PROTO_PARAM_COUNT
    THEN [ret |-> ERR_PROTO_RB_TOO_MANY_PARAMS, pkt |-> pkt_rsp]
    ELSE LET slot == param_count(pkt_rsp)
             p == SetParamCount(pkt_rsp, slot + 1)
         IN  IF Len(param) > MAX_PROTO_PARAM_LEN
             THEN [ret |-> ERR_PROTO_RB_PARAM_OVERFLOW, pkt |-> p]
             ELSE LET q == strlcpy(p, ParamOff(slot, 0), param, MAX_PROTO_PARAM_LEN)
                  IN  [ret |-> param_count(q), pkt |-> q]

\* returns the packet and the int16_t result
proto_append_response_pkt_param(pkt_rsp, param) ==
    IF param_count(pkt_rsp) + 1 > MAX_PROTO_PARAM_COUNT
    THEN [ret |-> ERR_PROTO_RB_TOO_MANY_PARAMS, pkt |-> pkt_rsp]
    ELSE IF Len(param) > MAX_PROTO_PARAM_LEN
    THEN [ret |-> ERR_PROTO_RB_PARAM_OVERFLOW, pkt |-> pkt_rsp]
    ELSE LET slot == param_count(pkt_rsp)
             p == SetParamCount(pkt_rsp, slot + 1)
             q == strlcpy(p, ParamOff(slot, 0), param, MAX_PROTO_PARAM_LEN)
         IN  [ret |-> param_count(q), pkt |-> q]

\* a setter that puts param_count to 1 whatever it was
proto_set_response_pkt_error_code_ForcesOne(pkt_rsp, error_code) ==
    LET p == SetParamCount(pkt_rsp, 1)
        str == DecStr(error_code)
    IN  PktWrite(StoreAt(p, ParamOff(0, 0), str), ParamOff(0, 0) + Len(str), 0)

proto_set_response_pkt_error_code(pkt_rsp, error_code) ==
    LET p == IF param_count(pkt_rsp) <= 0 THEN SetParamCount(pkt_rsp, 1) ELSE pkt_rsp
        str == DecStr(error_code)
    IN  PktWrite(StoreAt(p, ParamOff(0, 0), str), ParamOff(0, 0) + Len(str), 0)

\* an initialisation that sets no error code
proto_init_response_pkt_NoCode(pkt_rsp, pkt_cmd) ==
    strlcpy(proto_clear_pkt(pkt_rsp), OFF_CMD, cmd(pkt_cmd), MAX_PROTO_CMD)

proto_init_response_pkt(pkt_rsp, pkt_cmd) ==
    proto_set_response_pkt_error_code(
        strlcpy(proto_clear_pkt(pkt_rsp), OFF_CMD, cmd(pkt_cmd), MAX_PROTO_CMD),
        ERR_PROTO_SUCCESS)

\* the do ... while over the parameters lo..hi: the bytes written (as halves)
RECURSIVE PrintParams(_, _, _)
PrintParams(pkt, lo, hi) ==
    IF lo = hi THEN <<PROTO_PSC>> \o params(pkt, lo)
    ELSE LET mid == (lo + hi) \div 2
         IN  PrintParams(pkt, lo, mid) \o PrintParams(pkt, mid + 1, hi)

\* a printer that starts its CRC from the value crc16 holds
proto_print_response_pkt_CarriesCrc(pkt_rsp) ==
    LET body == <<PROTO_STX>> \o cmd(pkt_rsp)
                \o (IF param_count(pkt_rsp) > 0 THEN PrintParams(pkt_rsp, 0, param_count(pkt_rsp) - 1) ELSE << >>)
                \o <<PROTO_ETX>>
        crc == crc16_seq(pkt_crc16(pkt_rsp), body)
    IN  [out |-> body \o HexStr(crc) \o <<PROTO_CR>>, pkt |-> SetCrc16(pkt_rsp, crc)]

\* a printer whose CRC starts after the '['
proto_print_response_pkt_CrcSkipsStx(pkt_rsp) ==
    LET body == <<PROTO_STX>> \o cmd(pkt_rsp)
                \o (IF param_count(pkt_rsp) > 0 THEN PrintParams(pkt_rsp, 0, param_count(pkt_rsp) - 1) ELSE << >>)
                \o <<PROTO_ETX>>
        crc == crc16_seq(0, Tail(body))
    IN  [out |-> body \o HexStr(crc) \o <<PROTO_CR>>, pkt |-> SetCrc16(pkt_rsp, crc)]

\* proto_print_response_pkt: the bytes written to Serial and the packet, whose
\* crc16 is left at the CRC of the bytes from '[' through ']'
proto_print_response_pkt(pkt_rsp) ==
    LET body == <<PROTO_STX>> \o cmd(pkt_rsp)
                \o (IF param_count(pkt_rsp) > 0 THEN PrintParams(pkt_rsp, 0, param_count(pkt_rsp) - 1) ELSE << >>)
                \o <<PROTO_ETX>>
        crc == crc16_seq(0, body)
    IN  [out |-> body \o HexStr(crc) \o <<PROTO_CR>>, pkt |-> SetCrc16(pkt_rsp, crc)]

(* ---------------------------------------------------------------------- *)
(* main.cpp: the firmware state and the serial poll loop                   *)
(*                                                                         *)
(* fw is the firmware's memory: the globals of main.cpp under their own    *)
(* names, the position pc in loop() ("input": in proc_input's read loop,   *)
(* "cmd": proc_input returned > 0 and proc_cmd is about to run), and two   *)
(* histories: tx, the packets written to Serial (with the place that wrote *)
(* them), and decoded, one record per proto_parse_pkt_buffer call.         *)
(* ---------------------------------------------------------------------- *)
OFF == 0
MAX_EFFECT == 10

\* "LEDSC_TEENSY_001"
VERSION_CODE == <<76, 69, 68, 83, 67, 95, 84, 69, 69, 78, 83, 89, 95, 48, 48, 49>>
CMD_PRINT_VERSION == <<67, 80, 86>>
CMD_FULL_RESET == <<67, 70, 82>>
CMD_ENTER_BOOTLOADER == <<67, 69, 66>>
CMD_SET_DEBUGGING == <<67, 83, 68>>
CMD_SET_EFFECT == <<67, 83, 69>>
CMD_SET_COLOR == <<67, 83, 67>>
CMD_SET_BRIGHTNESS == <<67, 83, 66>>
\* the two commands of the firmware that keeps its settings in the EEPROM
CMD_SET_FIRE_COLOR_PALLET == <<67, 83, 70, 80>>
CMD_GET_STATUS == <<67, 71, 83>>

\* The EEPROM of that firmware as the values at its four addresses: the
\* uint8_t brightness, the uint16_t effect, the uint32_t colour (its top byte
\* and its low 24 bits) and the uint16_t palette.  An erased EEPROM reads 0xFF
\* in every byte.
ErasedEeprom ==
    [brightness |-> 255, effect |-> 65535, color_top |-> 255,
     color_rgb |-> 16777215, pallet |-> 65535]

\* the globals as the C runtime initialises them
FwInit ==
    [ich |-> 0, cib_len |-> 0, char_in_buffer |-> ZeroMem,
     pkt_receive |-> ZeroPkt, pkt_response |-> ZeroPkt,
     active_effect |-> OFF, color |-> 11492103, brightness |-> 68,
     debugging |-> FALSE,
     pc |-> "input", tx |-> << >>, decoded |-> << >>,
     settings |-> FALSE, fireColorPallet |-> 0, eeprom |-> ErasedEeprom]

\* the firmware that keeps its settings, after its setup() has read them from
\* the EEPROM e (settings = TRUE marks this firmware)
FwSetup(e) ==
    [FwInit EXCEPT !.settings = TRUE, !.eeprom = e,
                   !.brightness = e.brightness,
                   !.active_effect = e.effect,
                   !.color = e.color_rgb,
                   !.fireColorPallet = e.pallet]

\* proto_print_response_pkt(&pkt_response) from the place named by src
PrintResponse(f, src) ==
    LET r == proto_print_response_pkt(f.pkt_response)
    IN  [f EXCEPT !.pkt_response = r.pkt,
                  !.tx = Append(@, [src |-> src, out |-> r.out])]

\* init the response from the receive packet, set the error code, print
Respond(f, error_code, src) ==
    PrintResponse([f EXCEPT !.pkt_response =
                proto_set_response_pkt_error_code(
                    proto_init_response_pkt(f.pkt_response, f.pkt_receive),
                    error_code)], src)

proc_print_error(f, errorcode) == Respond(f, errorcode, "cmd")

proc_print_version(f) ==
    PrintResponse([f EXCEPT !.pkt_response =
                proto_append_response_pkt_param(
                    proto_init_response_pkt(f.pkt_response, f.pkt_receive),
                    VERSION_CODE).pkt], "cmd")

\* atoi(s) != 0 for the strings the handlers see: optional white space and
\* sign, then decimal digits; non-zero iff some digit before the first
\* non-digit is not '0'
AtoiNonZero(s) ==
    LET a == SkipSpace(s)
        b == IF a # << >> /\ Head(a) \in {43, 45} THEN Tail(a) ELSE a
        n == Least({k \in 0..Len(b) : k = Len(b) \/ b[k + 1] \notin 48..57})
    IN  \E k \in 1..n : b[k] # 48

proc_set_debugging(f) ==
    LET g == IF param_count(f.pkt_receive) > 0
             THEN [f EXCEPT !.debugging = AtoiNonZero(params(f.pkt_receive, 0))]
             ELSE f
    IN  PrintResponse([g EXCEPT !.pkt_response =
                   proto_init_response_pkt(g.pkt_response, g.pkt_receive)], "cmd")

\* the shape shared by the three set commands: missing parameter, or apply
SetCommand(f, applied) ==
    IF param_count(f.pkt_receive) <= 0
    THEN Respond(f, ERR_PROTO_CP_MISSING_PARAMS, "cmd")
    ELSE PrintResponse([applied EXCEPT !.pkt_response =
                    proto_init_response_pkt(f.pkt_response, f.pkt_receive)], "cmd")

\* EEPROM.put in the firmware that keeps its settings; e is the new contents
EepromPut(f, e) == IF f.settings THEN [f EXCEPT !.eeprom = e] ELSE f

proc_set_active_effect(f) ==
    LET effectin == strtol16(params(f.pkt_receive, 0)).val
    IN  SetCommand(f, IF effectin >= 0 /\ effectin < MAX_EFFECT
                      THEN EepromPut([f EXCEPT !.active_effect = effectin],
                                     [f.eeprom EXCEPT !.effect = U16(effectin)])
                      ELSE f)

proc_set_color(f) ==
    \* CRGB::setColorCode keeps the low 24 bits of the uint32_t
    LET colorin == strtol16(params(f.pkt_receive, 0)).val
    IN  SetCommand(f, EepromPut([f EXCEPT !.color = colorin % 16777216],
                                [f.eeprom EXCEPT !.color_rgb = colorin % 16777216,
                                                 !.color_top = (colorin \div 16777216) % 256]))

proc_set_brightness(f) ==
    LET b == U8(strtol16(params(f.pkt_receive, 0)).val)
    IN  SetCommand(f, EepromPut([f EXCEPT !.brightness = b],
                                [f.eeprom EXCEPT !.brightness = b]))

\* the enumeration FireColorPallets_t takes the value of the long as it is
proc_set_fire_color_pallet(f) ==
    LET p == strtol16(params(f.pkt_receive, 0)).val
    IN  SetCommand(f, EepromPut([f EXCEPT !.fireColorPallet = p],
                                [f.eeprom EXCEPT !.pallet = U16(p)]))

\* "%02X"
Hex2(n) == IF n < 16 THEN <<48>> \o HexStr(n) ELSE HexStr(n)

\* sprintf of debugging, active_effect, brightness, the colour and the palette,
\* appended after the status, which is then set to success again
proc_get_status(f) ==
    LET buff == Hex2(IF f.debugging THEN 1 ELSE 0) \o <<124>>
                \o Hex2(U16(f.active_effect)) \o <<124>>
                \o Hex2(f.brightness) \o <<124>>
                \o Hex2(f.color \div 65536) \o Hex2((f.color \div 256) % 256)
                \o Hex2(f.color % 256) \o <<124>>
                \o Hex2(U16(f.fireColorPallet))
    IN  PrintResponse([f EXCEPT !.pkt_response =
            proto_set_response_pkt_error_code(
                proto_append_response_pkt_param(
                    proto_init_response_pkt(f.pkt_response, f.pkt_receive),
                    buff).pkt,
                ERR_PROTO_SUCCESS)], "cmd")

\* proc_cmd: dispatch on the command name, then clear the receive packet
proc_cmd(f) ==
    LET name == cmd(f.pkt_receive)
        g == IF name = CMD_PRINT_VERSION THEN proc_print_version(f)
             ELSE IF name = CMD_FULL_RESET
                  THEN proc_print_error(f, ERR_PROTO_CP_CMD_NOT_IMP)
             ELSE IF name = CMD_ENTER_BOOTLOADER
                  THEN proc_print_error(f, ERR_PROTO_CP_CMD_NOT_IMP)
             ELSE IF name = CMD_SET_DEBUGGING THEN proc_set_debugging(f)
             ELSE IF name = CMD_SET_EFFECT THEN proc_set_active_effect(f)
             ELSE IF name = CMD_SET_COLOR THEN proc_set_color(f)
             ELSE IF name = CMD_SET_BRIGHTNESS THEN proc_set_brightness(f)
             ELSE IF f.settings /\ name = CMD_SET_FIRE_COLOR_PALLET
                  THEN proc_set_fire_color_pallet(f)
             ELSE IF f.settings /\ name = CMD_GET_STATUS THEN proc_get_status(f)
             ELSE proc_print_error(f, ERR_PROTO_CP_CMD_UNKNOWN)
    IN  [g EXCEPT !.pkt_receive = proto_clear_pkt(g.pkt_receive), !.pc = "input"]

\* a reset that leaves the bytes of char_in_buffer in place
ResetInput_KeepBytes(buf) == buf

\* memset(char_in_buffer, 0, MAX_INPUT_BUFFER_LEN)
ResetInput(buf) == Zero(buf, 0, MAX_INPUT_BUFFER_LEN)

\* a read that stores the byte without looking at cib_len
ReadByte_NoCap(f, b, beyond, env) ==
    LET stored == b # PROTO_CR /\ b # PROTO_NL
        buf == IF stored THEN Poke(f.char_in_buffer, f.cib_len, b)
               ELSE f.char_in_buffer
        n == IF stored THEN f.cib_len + 1 ELSE f.cib_len
        f1 == [f EXCEPT !.ich = b, !.char_in_buffer = buf, !.cib_len = n]
    IN  IF b # PROTO_CR THEN f1
        ELSE
        LET \* char_in_buffer[0..n] as the decoder can read it
            seen == [k \in 1..(n + 1) |->
                        IF k <= MAX_INPUT_BUFFER_LEN THEN Byte(buf, k - 1) ELSE beyond]
            r == proto_parse_pkt_buffer(seen, n, f.pkt_receive, env)
            f2 == [f1 EXCEPT !.pkt_receive = r.pkt,
                             !.char_in_buffer = ResetInput(buf),
                             !.cib_len = 0,
                             !.decoded = Append(@, [frame |-> SubSeq(seen, 1, n),
                                                    ret |-> r.ret,
                                                    pkt |-> r.pkt.mem])]
        IN  IF r.ret >= 0
            THEN \* return error_code;  as uint8_t, tested > 0 by loop()
                 [f2 EXCEPT !.pc = IF U8(r.ret) > 0 THEN "cmd" ELSE "input"]
            ELSE Respond(f2, r.ret, "decode")

\* a read that stores line feeds like any other byte
ReadByte_StoresNL(f, b, beyond, env) ==
    LET stored == f.cib_len < MAX_INPUT_BUFFER_LEN /\ b # PROTO_CR
        buf == IF stored THEN Poke(f.char_in_buffer, f.cib_len, b)
               ELSE f.char_in_buffer
        n == IF stored THEN f.cib_len + 1 ELSE f.cib_len
        f1 == [f EXCEPT !.ich = b, !.char_in_buffer = buf, !.cib_len = n]
    IN  IF b # PROTO_CR THEN f1
        ELSE
        LET \* char_in_buffer[0..n] as the decoder can read it
            seen == [k \in 1..(n + 1) |->
                        IF k <= MAX_INPUT_BUFFER_LEN THEN Byte(buf, k - 1) ELSE beyond]
            r == proto_parse_pkt_buffer(seen, n, f.pkt_receive, env)
            f2 == [f1 EXCEPT !.pkt_receive = r.pkt,
                             !.char_in_buffer = ResetInput(buf),
                             !.cib_len = 0,
                             !.decoded = Append(@, [frame |-> SubSeq(seen, 1, n),
                                                    ret |-> r.ret,
                                                    pkt |-> r.pkt.mem])]
        IN  IF r.ret >= 0
            THEN \* return error_code;  as uint8_t, tested > 0 by loop()
                 [f2 EXCEPT !.pc = IF U8(r.ret) > 0 THEN "cmd" ELSE "input"]
            ELSE Respond(f2, r.ret, "decode")

\* One pass of the body of proc_input's  while(Serial.available() > 0)  with
\* Serial.read() = b.  beyond is the byte that follows char_in_buffer in memory
\* (proto_parse_pkt_buffer reads buffer[len] and len can be the array's size).
ReadByte(f, b, beyond, env) ==
    LET stored == f.cib_len < MAX_INPUT_BUFFER_LEN /\ b # PROTO_CR /\ b # PROTO_NL
        buf == IF stored THEN Poke(f.char_in_buffer, f.cib_len, b)
               ELSE f.char_in_buffer
        n == IF stored THEN f.cib_len + 1 ELSE f.cib_len
        f1 == [f EXCEPT !.ich = b, !.char_in_buffer = buf, !.cib_len = n]
    IN  IF b # PROTO_CR THEN f1
        ELSE
        LET \* char_in_buffer[0..n] as the decoder can read it
            seen == [k \in 1..(n + 1) |->
                        IF k <= MAX_INPUT_BUFFER_LEN THEN Byte(buf, k - 1) ELSE beyond]
            r == proto_parse_pkt_buffer(seen, n, f.pkt_receive, env)
            f2 == [f1 EXCEPT !.pkt_receive = r.pkt,
                             !.char_in_buffer = ResetInput(buf),
                             !.cib_len = 0,
                             !.decoded = Append(@, [frame |-> SubSeq(seen, 1, n),
                                                    ret |-> r.ret,
                                                    pkt |-> r.pkt.mem])]
        IN  IF r.ret >= 0
            THEN \* return error_code;  as uint8_t, tested > 0 by loop()
                 [f2 EXCEPT !.pc = IF U8(r.ret) > 0 THEN "cmd" ELSE "input"]
            ELSE Respond(f2, r.ret, "decode")

\* an overflow reset taken whenever the serial line runs dry with bytes buffered
InputIdle_AnyLen(f) ==
    IF f.cib_len >= 1
    THEN [Respond(f, ERR_PROTO_CP_CMD_OVERFLOW, "overflow")
             EXCEPT !.char_in_buffer = ResetInput(@), !.cib_len = 0]
    ELSE f

\* proc_input once Serial.available() is 0: the overflow reset and return 0
\* (loop() then draws the active effect and calls proc_input again)
InputIdle(f) ==
    IF f.cib_len >= MAX_INPUT_BUFFER_LEN
    THEN [Respond(f, ERR_PROTO_CP_CMD_OVERFLOW, "overflow")
             EXCEPT !.char_in_buffer = ResetInput(@), !.cib_len = 0]
    ELSE f

(* ---------------------------------------------------------------------- *)
(* State                                                                   *)
(* ---------------------------------------------------------------------- *)
VARIABLES
    crc_check,   \* the build: TRUE iff DISABLE_CRC16 is not defined
    stack_tail,  \* the bytes that follow crc16Hex[4] on the stack in this build
    stream,      \* every byte the host sends on the serial line, in order
    rx,          \* the bytes of stream not yet on the line
    serial_in,   \* Serial's receive buffer: arrived and not yet read
    fw,          \* the firmware (see FwInit)
    t_pc,        \* direct calls of the protocol functions: position,
    t_in,        \*   the inputs of the call,
    t_beyond,    \*   the byte that follows the frame in memory,
    t_pkt,       \*   the packet the call works on,
    t_ret,       \*   the value returned,
    t_out        \*   the bytes written to Serial

vars == <<crc_check, stack_tail, stream, rx, serial_in, fw,
          t_pc, t_in, t_beyond, t_pkt, t_ret, t_out>>

Env == [crc_check |-> crc_check, stack |-> stack_tail]

(* ---------------------------------------------------------------------- *)
(* Inputs                                                                  *)
(* ---------------------------------------------------------------------- *)
MaxFrameLen == 4
MaxLines == 2
MaxStackTail == 1

Rep(b, n) == [k \in 1..n |-> b]

\* all byte sequences of length 1..n over the set A
SeqsUpTo(A, n) == UNION {[1..k -> A] : k \in 1..n}

\* what can follow crc16Hex[4] on the stack: a NUL first, or hex digits ('0')
StackTails == {Rep(48, k) : k \in 0..MaxStackTail}
\* what can follow a buffer in memory: NUL, ']', 'A'
BeyondBytes == {0, PROTO_ETX, 65}

\* a packet holding the given name and parameters (each within its array)
RECURSIVE StoreParams(_, _, _)
StoreParams(pkt, plist, k) ==
    IF k > Len(plist) THEN pkt
    ELSE StoreParams(StoreAt(pkt, ParamOff(k - 1, 0), plist[k]), plist, k + 1)

MkPkt(name, plist) ==
    SetParamCount(StoreParams(StoreAt(ZeroPkt, OFF_CMD, name), plist, 1), Len(plist))

\* '[' name (':' param)* 
RECURSIVE JoinParams(_, _)
JoinParams(plist, k) ==
    IF k > Len(plist) THEN << >>
    ELSE <<PROTO_PSC>> \o plist[k] \o JoinParams(plist, k + 1)

Body(name, plist) == <<PROTO_STX>> \o name \o JoinParams(plist, 1)
Frame(name, plist) == Body(name, plist) \o <<PROTO_ETX>>

\* frames for direct calls of the decoder: every short byte string over the
\* framing bytes, 'A' and '1' ...
ParseAlphabet == {PROTO_STX, PROTO_ETX, PROTO_PSC, 65, 49}
SmallFrames == SeqsUpTo(ParseAlphabet, MaxFrameLen)

\* ... and frames whose name and parameters sit at the limits of the arrays:
\* names of 1, 9, 10 and 11 bytes, 0 to 5 parameters "1" of which at most one is
\* replaced by 49, 50 or 51 bytes 'x'
NameLens == {1, MAX_PROTO_CMD - 1, MAX_PROTO_CMD, MAX_PROTO_CMD + 1}
ParamLens == {MAX_PROTO_PARAM_LEN - 1, MAX_PROTO_PARAM_LEN, MAX_PROTO_PARAM_LEN + 1}
ParamLists ==
    {[i \in 1..cnt |-> <<49>>] : cnt \in 0..(MAX_PROTO_PARAM_COUNT + 1)}
    \cup {[i \in 1..cnt |-> IF i = k THEN Rep(120, n) ELSE <<49>>] :
             cnt \in 1..(MAX_PROTO_PARAM_COUNT + 1),
             k \in 1..(MAX_PROTO_PARAM_COUNT + 1), n \in ParamLens}
\* a frame followed by its CRC as the encoder prints it
Signed(f) == f \o HexStr(crc16_seq(0, f))
BoundaryFrames ==
    UNION {{Body(Rep(65, n), pl), Frame(Rep(65, n), pl), Signed(Frame(Rep(65, n), pl))} :
              n \in NameLens, pl \in ParamLists}

\* frames behind noise without a '[': "1" or "]:" before frames with a name
\* of 1 or 10 bytes and no parameter or the parameter "1", bare and signed
NoisyFrames ==
    {n \o g : n \in {<<49>>, <<PROTO_ETX, PROTO_PSC>>},
              g \in UNION {{Frame(Rep(65, k), pl), Signed(Frame(Rep(65, k), pl))} :
                               k \in {1, MAX_PROTO_CMD}, pl \in {<< >>, <<<<49>>>>}}}

ParseFrames == SmallFrames \cup BoundaryFrames \cup NoisyFrames

\* a receive packet left by an earlier decode: name "ZZ", parameters "7", "8"
DirtyPkt == SetCrc16(MkPkt(<<90, 90>>, <<<<55>>, <<56>>>>), 4660)
PriorPkts == {ZeroPkt, DirtyPkt}

(* ---------------------------------------------------------------------- *)
(* SpecParse: proto_parse_pkt_buffer called directly on one frame          *)
(* ---------------------------------------------------------------------- *)
IdleFirmware ==
    /\ stream = << >> /\ rx = << >> /\ serial_in = << >> /\ fw = FwInit

IdleCalls ==
    /\ t_pc = "none" /\ t_in = << >> /\ t_beyond = 0
    /\ t_pkt = ZeroPkt /\ t_ret = 0 /\ t_out = << >>

Builds ==
    /\ crc_check \in BOOLEAN
    /\ stack_tail \in (IF crc_check THEN StackTails ELSE {<< >>})

InitParse ==
    /\ Builds
    /\ IdleFirmware
    /\ t_pc = "call"
    /\ t_in \in [frame : ParseFrames, prior : PriorPkts]
    /\ t_beyond \in BeyondBytes
    /\ t_pkt = t_in.prior
    /\ t_ret = 0
    /\ t_out = << >>

ParseCall ==
    /\ t_pc = "call"
    /\ LET r == proto_parse_pkt_buffer(t_in.frame \o <<t_beyond>>,
                                       Len(t_in.frame), t_pkt, Env)
       IN  /\ t_pkt' = r.pkt
           /\ t_ret' = r.ret
    /\ t_pc' = "done"
    /\ UNCHANGED <<crc_check, stack_tail, stream, rx, serial_in, fw,
                   t_in, t_beyond, t_out>>

\* what proc_input and loop() do with the result of the call: an error is
\* answered at once, a return value above 0 (as uint8_t) runs proc_cmd.
\* t_out takes the bytes written to the serial line.
ReplyCall ==
    /\ t_pc = "done"
    /\ LET f == [FwInit EXCEPT !.pkt_receive = t_pkt]
           g == IF t_ret < 0 THEN Respond(f, t_ret, "decode")
                ELSE IF U8(t_ret) > 0 THEN proc_cmd(f)
                ELSE f
       IN  t_out' = IF g.tx = << >> THEN << >> ELSE g.tx[Len(g.tx)].out
    /\ t_pc' = "replied"
    /\ UNCHANGED <<crc_check, stack_tail, stream, rx, serial_in, fw,
                   t_in, t_beyond, t_pkt, t_ret>>

NextParse == ParseCall

SpecParse == InitParse /\ [][NextParse]_vars

(* ---------------------------------------------------------------------- *)
(* Properties of the decoder (SpecParse)                                   *)
(* ---------------------------------------------------------------------- *)
Has(seq, b) == \E k \in 1..Len(seq) : seq[k] = b

\* the frame is '[' NAME (':' param)* ']' with no framing byte, CR or LF inside
\* NAME or a parameter
WellFormed(fr) ==
    /\ Len(fr) >= 2
    /\ fr[1] = PROTO_STX
    /\ fr[Len(fr)] = PROTO_ETX
    /\ \A k \in 2..(Len(fr) - 1) :
           fr[k] \notin {PROTO_STX, PROTO_ETX, PROTO_CR, PROTO_NL}

\* the fields of a well-formed frame: field 1 is NAME, field k + 1 parameter k
SepsOf(fr) == {k \in 2..(Len(fr) - 1) : fr[k] = PROTO_PSC}
FieldCount(fr) == Cardinality(SepsOf(fr)) + 1
\* the position that ends field n: its separator, or the closing ']'
FieldEnd(fr, n) ==
    IF n = FieldCount(fr) THEN Len(fr)
    ELSE CHOOSE p \in SepsOf(fr) : Cardinality({q \in SepsOf(fr) : q < p}) = n - 1
Field(fr, n) ==
    SubSeq(fr, (IF n = 1 THEN 1 ELSE FieldEnd(fr, n - 1)) + 1, FieldEnd(fr, n) - 1)

\* the contents of the cmd and params arrays and param_count are those of q
SameFields(p, q) == \A j \in 0..OFF_PARAM_COUNT : Byte(p.mem, j) = Byte(q.mem, j)

\* C2 (as claimed): a well-formed frame with NAME of 1 to 10 bytes and at most 4
\* parameters of 0 to 50 bytes, decoded into a cleared packet with checksums
\* disabled, returns a non-negative count and yields NAME, the number of
\* parameters and the parameters in wire order.
C2_Claim ==
    (/\ t_pc = "done"
     /\ ~crc_check
     /\ t_in.prior = ZeroPkt
     /\ WellFormed(t_in.frame)
     /\ Len(Field(t_in.frame, 1)) \in 1..MAX_PROTO_CMD
     /\ FieldCount(t_in.frame) - 1 <= MAX_PROTO_PARAM_COUNT
     /\ \A n \in 2..FieldCount(t_in.frame) :
            Len(Field(t_in.frame, n)) <= MAX_PROTO_PARAM_LEN)
    => (/\ t_ret >= 0
        /\ cmd(t_pkt) = Field(t_in.frame, 1)
        /\ param_count(t_pkt) = FieldCount(t_in.frame) - 1
        /\ \A n \in 2..FieldCount(t_in.frame) :
               params(t_pkt, n - 2) = Field(t_in.frame, n))

\* C6 (as claimed): a positive return value for a non-empty frame comes with a
\* non-empty name.
C6_Claim ==
    (t_pc = "done" /\ Len(t_in.frame) > 0 /\ t_ret > 0) => cmd(t_pkt) # << >>

\* C8 (as claimed): after a successful decode into a cleared packet every
\* parameter read back from its slot is at most MAX_PROTO_PARAM_LEN long, so it
\* ends inside its own slot and holds no byte of another parameter.
C8_Claim ==
    (t_pc = "done" /\ t_in.prior = ZeroPkt /\ Len(t_in.frame) > 0 /\ t_ret >= 0)
    => \A k \in 0..(MAX_PROTO_PARAM_COUNT - 1) :
           k < param_count(t_pkt) => Len(params(t_pkt, k)) <= MAX_PROTO_PARAM_LEN

\* C9: a non-empty frame without '[' gets ERR_PROTO_CP_MISSING_STX and the
\* packet's name, parameters and parameter count stay as they were.
C9_MissingStx ==
    (t_pc = "done" /\ Len(t_in.frame) > 0 /\ ~Has(t_in.frame, PROTO_STX))
    => (t_ret = ERR_PROTO_CP_MISSING_STX /\ SameFields(t_pkt, t_in.prior))

C9_Witness ==
    /\ t_pc = "done"
    /\ Len(t_in.frame) >= 2
    /\ ~Has(t_in.frame, PROTO_STX)
    /\ Has(t_in.frame, PROTO_ETX)
    /\ t_in.prior = DirtyPkt
    /\ t_ret = ERR_PROTO_CP_MISSING_STX
    /\ cmd(t_pkt) = <<90, 90>>

\* the frame has a '[' and no ']' after its first '['
NoEtxAfterStx(fr) ==
    /\ Has(fr, PROTO_STX)
    /\ \A k \in 1..Len(fr) :
           fr[k] = PROTO_ETX => \E j \in (k + 1)..Len(fr) : fr[j] = PROTO_STX /\
                                  \A i \in 1..(j - 1) : fr[i] # PROTO_STX

\* C10 (as claimed): a frame that ends with no ']' after its '[' never decodes
\* as success.
C10_Claim ==
    (t_pc = "done" /\ NoEtxAfterStx(t_in.frame)) => t_ret < 0

(* ---------------------------------------------------------------------- *)
(* SpecCodec: a packet is printed with proto_print_response_pkt and the    *)
(* bytes written, without the final CR, are decoded into a packet that is  *)
(* cleared but for the value of crc16                                      *)
(* ---------------------------------------------------------------------- *)
\* names "CPV" and 'A' repeated 1, 9 and 10 times; 0 to 4 parameters, each ""
\* or "1", or "1"s of which one is replaced by 49 or 50 bytes 'x'
EncNames == {CMD_PRINT_VERSION} \cup {Rep(65, n) : n \in NameLens \ {MAX_PROTO_CMD + 1}}
EncParamLists ==
    UNION {[1..cnt -> {<< >>, <<49>>}] : cnt \in 0..MAX_PROTO_PARAM_COUNT}
    \cup {[i \in 1..cnt |-> IF i = k THEN Rep(120, n) ELSE <<49>>] :
             cnt \in 1..MAX_PROTO_PARAM_COUNT, k \in 1..MAX_PROTO_PARAM_COUNT,
             n \in ParamLens \ {MAX_PROTO_PARAM_LEN + 1}}

\* the value crc16 holds before a call: 0 after proto_clear_pkt, else the CRC of
\* an earlier frame
PriorCrcs == {0, pkt_crc16(DirtyPkt)}

InitCodec ==
    /\ Builds
    /\ IdleFirmware
    /\ t_pc = "print"
    /\ t_in \in [name : EncNames, params : EncParamLists, crc : PriorCrcs]
    /\ t_beyond \in BeyondBytes
    /\ t_pkt = SetCrc16(MkPkt(t_in.name, t_in.params), t_in.crc)
    /\ t_ret = 0
    /\ t_out = << >>

PrintCall ==
    /\ t_pc = "print"
    /\ LET r == proto_print_response_pkt(t_pkt)
       IN  /\ t_out' = r.out
           /\ t_pkt' = r.pkt
    /\ t_pc' = "printed"
    /\ UNCHANGED <<crc_check, stack_tail, stream, rx, serial_in, fw,
                   t_in, t_beyond, t_ret>>

DecodeBack ==
    /\ t_pc = "printed"
    /\ LET n == Len(t_out) - 1
           r == proto_parse_pkt_buffer(SubSeq(t_out, 1, n) \o <<t_beyond>>, n,
                                       SetCrc16(ZeroPkt, t_in.crc), Env)
       IN  /\ t_pkt' = r.pkt
           /\ t_ret' = r.ret
    /\ t_pc' = "done"
    /\ UNCHANGED <<crc_check, stack_tail, stream, rx, serial_in, fw,
                   t_in, t_beyond, t_out>>

NextCodec == PrintCall \/ DecodeBack

SpecCodec == InitCodec /\ [][NextCodec]_vars

\* no framing byte, CR or LF in the string
Plain(str) ==
    \A k \in 1..Len(str) :
        str[k] \notin {PROTO_STX, PROTO_ETX, PROTO_PSC, PROTO_CR, PROTO_NL}

\* C1 (as claimed): with integrity checking enabled, a packet with a valid name
\* of at most MAX_PROTO_CMD bytes and 0 to 4 parameters of at most
\* MAX_PROTO_PARAM_LEN bytes each, printed and decoded back into a cleared
\* packet, gives a non-negative return value and the same name, parameter
\* count and parameter values.
C1_Claim ==
    (/\ t_pc = "done"
     /\ crc_check
     /\ Len(t_in.name) \in 1..MAX_PROTO_CMD /\ Plain(t_in.name)
     /\ Len(t_in.params) <= MAX_PROTO_PARAM_COUNT
     /\ \A k \in 1..Len(t_in.params) :
            Len(t_in.params[k]) <= MAX_PROTO_PARAM_LEN /\ Plain(t_in.params[k]))
    => (/\ t_ret >= 0
        /\ cmd(t_pkt) = t_in.name
        /\ param_count(t_pkt) = Len(t_in.params)
        /\ \A k \in 1..Len(t_in.params) : params(t_pkt, k - 1) = t_in.params[k])

(* ---------------------------------------------------------------------- *)
(* Spec: loop() polling proc_input while the bytes of a stream arrive on   *)
(* the serial line one at a time, at any moment                            *)
(* ---------------------------------------------------------------------- *)
FRAME_CPV == <<PROTO_STX>> \o CMD_PRINT_VERSION \o <<PROTO_ETX>>

\* lines sent before a CR: "[CPV]" bare and with its checksum, a frame cut
\* short inside a parameter, noise followed by a line feed, the empty line
Lines == {FRAME_CPV, Signed(FRAME_CPV), <<PROTO_STX, 65, PROTO_PSC, 49>>,
          <<65, PROTO_NL>>, << >>}

RECURSIVE Join(_)
Join(ls) == IF ls = << >> THEN << >> ELSE Head(ls) \o <<PROTO_CR>> \o Join(Tail(ls))

ShortStreams == {Join(ls) : ls \in UNION {[1..n -> Lines] : n \in 1..MaxLines}}

\* 245 bytes of noise and "[A:1:1:1:1]" fill the buffer, one more byte and a
\* CR follow; then "[A:1]" and a CR
FullFrame == Rep(120, MAX_INPUT_BUFFER_LEN - 11)
             \o <<PROTO_STX, 65, PROTO_PSC, 49, PROTO_PSC, 49, PROTO_PSC, 49,
                  PROTO_PSC, 49, PROTO_ETX>>
LongStream == FullFrame \o <<122, PROTO_CR>>
              \o <<PROTO_STX, 65, PROTO_PSC, 49, PROTO_ETX, PROTO_CR>>

Init ==
    /\ Builds
    /\ stream \in ShortStreams \cup (IF crc_check THEN {} ELSE {LongStream})
    /\ rx = stream
    /\ serial_in = << >>
    /\ fw = FwInit
    /\ IdleCalls

\* the UART receives the next byte of the stream
SerialArrive ==
    /\ rx # << >>
    /\ serial_in' = Append(serial_in, Head(rx))
    /\ rx' = Tail(rx)
    /\ UNCHANGED <<crc_check, stack_tail, stream, fw,
                   t_pc, t_in, t_beyond, t_pkt, t_ret, t_out>>

\* proc_input reads one available byte
ProcInputRead ==
    /\ fw.pc = "input"
    /\ serial_in # << >>
    /\ \E beyond \in (IF fw.cib_len >= MAX_INPUT_BUFFER_LEN /\ Head(serial_in) = PROTO_CR
                      THEN BeyondBytes ELSE {0}) :
           fw' = ReadByte(fw, Head(serial_in), beyond, Env)
    /\ serial_in' = Tail(serial_in)
    /\ UNCHANGED <<crc_check, stack_tail, stream, rx,
                   t_pc, t_in, t_beyond, t_pkt, t_ret, t_out>>

\* proc_input finds nothing available
ProcInputIdle ==
    /\ fw.pc = "input"
    /\ serial_in = << >>
    /\ fw' = InputIdle(fw)
    /\ UNCHANGED <<crc_check, stack_tail, stream, rx, serial_in,
                   t_pc, t_in, t_beyond, t_pkt, t_ret, t_out>>

\* loop() calls proc_cmd after proc_input returned a positive value
ProcCmd ==
    /\ fw.pc = "cmd"
    /\ fw' = proc_cmd(fw)
    /\ UNCHANGED <<crc_check, stack_tail, stream, rx, serial_in,
                   t_pc, t_in, t_beyond, t_pkt, t_ret, t_out>>

Next == SerialArrive \/ ProcInputRead \/ ProcInputIdle \/ ProcCmd

Spec == Init /\ [][Next]_vars

(* ---------------------------------------------------------------------- *)
(* Claims about the poll loop                                              *)
(* ---------------------------------------------------------------------- *)
\* the bytes of the stream proc_input has read so far
Consumed == SubSeq(stream, 1, Len(stream) - Len(rx) - Len(serial_in))

\* no MAX_INPUT_BUFFER_LEN bytes in a row without a CR
ShortFrames(bytes) ==
    \A i \in 1..(Len(bytes) - MAX_INPUT_BUFFER_LEN + 1) :
        \E j \in i..(i + MAX_INPUT_BUFFER_LEN - 1) : bytes[j] = PROTO_CR

\* bytes[lo..hi] read in one burst: every byte is available when proc_input
\* wants it, and loop() calls proc_cmd whenever proc_input returns a positive
\* value
RECURSIVE Burst(_, _, _, _, _)
Burst(f, bytes, lo, hi, env) ==
    IF lo > hi THEN f
    ELSE IF lo = hi
    THEN LET g == ReadByte(f, bytes[lo], 0, env)
         IN  IF g.pc = "cmd" THEN proc_cmd(g) ELSE g
    ELSE LET mid == (lo + hi) \div 2
             first == Burst(f, bytes, lo, mid, env)
         IN  IF first.cib_len >= 0 THEN Burst(first, bytes, mid + 1, hi, env)
             ELSE first

\* C3: on a stream whose frames are all shorter than the buffer, whenever
\* proc_input is about to look at the serial line the firmware is in the state
\* that reading the same bytes in one burst gives, however their arrival was
\* split across polls: same decoded packets, same responses, same buffer.
C3_FragmentationInvariance ==
    (ShortFrames(stream) /\ fw.pc = "input")
    => LET one == Burst(FwInit, Consumed, 1, Len(Consumed), Env)
       IN  /\ fw.decoded = one.decoded
           /\ fw.tx = one.tx
           /\ fw = one

\* "[CPV]" was decoded (name CPV, no parameters) and answered, and the serial
\* line has run dry inside the next frame with more of the stream to come
C3_Witness ==
    /\ ShortFrames(stream)
    /\ fw.pc = "input"
    /\ serial_in = << >>
    /\ rx # << >>
    /\ fw.cib_len > 0
    /\ Len(fw.decoded) = 1
    /\ fw.decoded[1].frame = FRAME_CPV
    /\ fw.decoded[1].ret = 5
    /\ fw.decoded[1].pkt = MkPkt(CMD_PRINT_VERSION, << >>).mem
    /\ Len(fw.tx) = 1

\* C4 (as claimed): a buffer that reached its capacity is discarded with an
\* overflow report and never handed to the decoder: every frame the decoder
\* was given is shorter than MAX_INPUT_BUFFER_LEN.
C4_Claim ==
    \A k \in 1..Len(fw.decoded) : Len(fw.decoded[k].frame) < MAX_INPUT_BUFFER_LEN

\* C5: the step of proc_input that reads a CR hands the accumulated bytes to
\* the decoder once and leaves cib_len = 0 and every buffer byte zero, whatever
\* the decoder returned.
C5_ClearedAfterCR ==
    [][(/\ fw.pc = "input"
        /\ serial_in # << >>
        /\ Head(serial_in) = PROTO_CR
        /\ serial_in' = Tail(serial_in))
       => (/\ fw'.cib_len = 0
           /\ \A j \in 0..(MAX_INPUT_BUFFER_LEN - 1) : Byte(fw'.char_in_buffer, j) = 0
           /\ Len(fw'.decoded) = Len(fw.decoded) + 1
           /\ fw'.decoded[Len(fw'.decoded)].frame =
                  [k \in 1..fw.cib_len |-> Byte(fw.char_in_buffer, k - 1)])]_vars

\* a CR was just read with an empty buffer after one frame decoded with
\* success and one with an error
C5_Witness ==
    /\ fw.ich = PROTO_CR
    /\ fw.cib_len = 0
    /\ \A j \in 0..(MAX_INPUT_BUFFER_LEN - 1) : Byte(fw.char_in_buffer, j) = 0
    /\ \E i, j \in 1..Len(fw.decoded) :
           /\ fw.decoded[i].ret > 0 /\ Len(fw.decoded[i].frame) > 0
           /\ fw.decoded[j].ret < 0 /\ Len(fw.decoded[j].frame) > 0

\* a write recorded outside the four parameter slots
BeyondSlots(pkt) == \E w \in pkt.oow : w[1] = "param" /\ w[2] >= MAX_PROTO_PARAM_COUNT

\* C7 (as claimed): in every state of the poll loop the receive packet and the
\* response packet hold at most MAX_PROTO_PARAM_COUNT parameters and no
\* parameter was written into a slot with index 4 or more.
C7_Claim ==
    /\ param_count(fw.pkt_receive) <= MAX_PROTO_PARAM_COUNT
    /\ param_count(fw.pkt_response) <= MAX_PROTO_PARAM_COUNT
    /\ ~BeyondSlots(fw.pkt_receive)
    /\ ~BeyondSlots(fw.pkt_response)

(* ---------------------------------------------------------------------- *)
(* Further claims about direct decoder calls                               *)
(* ---------------------------------------------------------------------- *)
\* the position (from 1) of the first '[' of a frame that has one
FirstStx(fr) == Least({k \in 1..Len(fr) : fr[k] = PROTO_STX})

\* more than MAX_PROTO_CMD bytes follow the first '[' before any ':' or ']'
LongName(fr) ==
    /\ Has(fr, PROTO_STX)
    /\ Len(fr) >= FirstStx(fr) + MAX_PROTO_CMD + 1
    /\ \A k \in (FirstStx(fr) + 1)..(FirstStx(fr) + MAX_PROTO_CMD + 1) :
           fr[k] \notin {PROTO_PSC, PROTO_ETX}

\* C11: a frame with more than MAX_PROTO_CMD name bytes after its '[' gets
\* ERR_PROTO_CP_CMD_OVERFLOW and no parameter is parsed: param_count and the
\* parameter bytes stay as they were (the name's terminator, written to
\* cmd[MAX_PROTO_CMD], falls on the first byte of params[0]).
C11_CmdOverflow ==
    (t_pc = "done" /\ LongName(t_in.frame))
    => (/\ t_ret = ERR_PROTO_CP_CMD_OVERFLOW
        /\ param_count(t_pkt) = param_count(t_in.prior)
        /\ \A j \in (OFF_PARAMS + 1)..(OFF_PARAM_COUNT - 1) :
               Byte(t_pkt.mem, j) = Byte(t_in.prior.mem, j))

\* an 11-byte name followed by ":1" and no ']', decoded over the packet left
\* by an earlier frame
C11_Witness ==
    /\ t_pc = "done"
    /\ t_in.frame = Body(Rep(65, MAX_PROTO_CMD + 1), <<<<49>>>>)
    /\ t_in.prior = DirtyPkt
    /\ t_ret = ERR_PROTO_CP_CMD_OVERFLOW
    /\ param_count(t_pkt) = 2
    /\ params(t_pkt, 1) = <<56>>

\* C12: bytes without '[' before a frame that begins with '[' change nothing
\* in the decode into a cleared packet but the count returned on success, which
\* grows by the number of those bytes: same error code, name, parameter count
\* and parameter values as for the frame alone.
C12_NoisePrefix ==
    (/\ t_pc = "done"
     /\ t_in.prior = ZeroPkt
     /\ Has(t_in.frame, PROTO_STX)
     /\ FirstStx(t_in.frame) > 1)
    => LET n == FirstStx(t_in.frame) - 1
           F == SubSeq(t_in.frame, n + 1, Len(t_in.frame))
           r == proto_parse_pkt_buffer(F \o <<t_beyond>>, Len(F), ZeroPkt, Env)
       IN  /\ t_ret = (IF r.ret >= 0 THEN r.ret + n ELSE r.ret)
           /\ cmd(t_pkt) = cmd(r.pkt)
           /\ param_count(t_pkt) = param_count(r.pkt)
           /\ \A k \in 0..(MAX_PROTO_PARAM_COUNT - 1) : params(t_pkt, k) = params(r.pkt, k)

\* "]:" before "[A:1]" and its checksum, decoded with the CRC check compiled
\* in: success, 2 more than the 9 bytes of the frame alone
C12_Witness ==
    /\ t_pc = "done"
    /\ crc_check
    /\ stack_tail = << >>
    /\ t_in.prior = ZeroPkt
    /\ t_in.frame = <<PROTO_ETX, PROTO_PSC>> \o Signed(Frame(<<65>>, <<<<49>>>>))
    /\ t_ret = Len(t_in.frame)
    /\ cmd(t_pkt) = <<65>>
    /\ param_count(t_pkt) = 1
    /\ params(t_pkt, 0) = <<49>>

(* ---------------------------------------------------------------------- *)
(* Further claims about the poll loop                                      *)
(* ---------------------------------------------------------------------- *)
\* C13: a CR read with nothing accumulated gives the decoder length 0: it
\* returns 0 and leaves the receive packet as it was, no command is
\* dispatched and no response is written.
C13_LoneCR ==
    [][(/\ fw.pc = "input"
        /\ serial_in # << >>
        /\ Head(serial_in) = PROTO_CR
        /\ fw.cib_len = 0
        /\ serial_in' = Tail(serial_in))
       => (/\ fw'.decoded[Len(fw'.decoded)].frame = << >>
           /\ fw'.decoded[Len(fw'.decoded)].ret = 0
           /\ fw'.pkt_receive = fw.pkt_receive
           /\ fw'.pkt_response = fw.pkt_response
           /\ fw'.tx = fw.tx
           /\ fw'.pc = "input")]_vars

\* a lone CR was read after "[A:1" failed its CRC test and left its name and
\* parameter in the receive packet; the only response is the one to "[A:1"
C13_Witness ==
    /\ crc_check
    /\ fw.ich = PROTO_CR
    /\ fw.pc = "input"
    /\ Len(fw.decoded) = 2
    /\ fw.decoded[1].ret = ERR_PROTO_CP_MISSING_CRC16
    /\ fw.decoded[2].frame = << >>
    /\ fw.decoded[2].ret = 0
    /\ cmd(fw.pkt_receive) = <<65>>
    /\ param_count(fw.pkt_receive) = 1
    /\ Len(fw.tx) = 1

(* ---------------------------------------------------------------------- *)
(* Claims about the checksum                                               *)
(* ---------------------------------------------------------------------- *)
\* the frame without what follows its first ']'
UpToEtx(fr) == SubSeq(fr, 1, Least({k \in 1..Len(fr) : fr[k] = PROTO_ETX}))

\* the frame is '[' NAME (':' param)* ']' followed by any bytes, with a NAME of
\* fewer than MAX_PROTO_CMD bytes and at most MAX_PROTO_PARAM_COUNT parameters
\* of fewer than MAX_PROTO_PARAM_LEN bytes: the decoder stops on its ']'
EndsAtEtx(fr) ==
    /\ Has(fr, PROTO_ETX)
    /\ WellFormed(UpToEtx(fr))
    /\ Len(Field(UpToEtx(fr), 1)) < MAX_PROTO_CMD
    /\ FieldCount(UpToEtx(fr)) - 1 <= MAX_PROTO_PARAM_COUNT
    /\ \A n \in 2..FieldCount(UpToEtx(fr)) :
           Len(Field(UpToEtx(fr), n)) < MAX_PROTO_PARAM_LEN

\* the up to 4 bytes after the ']', read as a hexadecimal number
CrcField(fr) ==
    LET e == Len(UpToEtx(fr))
    IN  strtol16(UpToNul(SubSeq(fr, e + 1, IF Len(fr) < e + 4 THEN Len(fr) ELSE e + 4)))

\* C14 (as claimed): with the CRC check compiled in and a cleared packet, what
\* follows the ']' decides the outcome: no hexadecimal number and a computed CRC other than 0
\* give ERR_PROTO_CP_MISSING_CRC16; a number that differs from the computed CRC
\* gives ERR_PROTO_CP_CRC16_MISMATCH; a number that equals it gives success.
C14_Claim ==
    (t_pc = "done" /\ crc_check /\ t_in.prior = ZeroPkt /\ EndsAtEtx(t_in.frame))
    => LET c == crc16_seq(0, UpToEtx(t_in.frame))
           v == CrcField(t_in.frame)
       IN  /\ (~v.moved /\ c # 0) => t_ret = ERR_PROTO_CP_MISSING_CRC16
           /\ (v.moved /\ U16(v.val) # c) => t_ret = ERR_PROTO_CP_CRC16_MISMATCH
           /\ (v.moved /\ U16(v.val) = 0) => t_ret # ERR_PROTO_CP_MISSING_CRC16
           /\ (t_ret >= 0) <=> (U16(v.val) = c /\ (v.moved \/ c = 0))

(* ---------------------------------------------------------------------- *)
(* SpecFlip: a packet is printed and the bytes written, with one byte      *)
(* between '[' and ']' replaced and without the final CR, are decoded into *)
(* a cleared packet                                                        *)
(* ---------------------------------------------------------------------- *)
\* names "A", "CPV" and "AZ" followed by the four hexadecimal digits of the
\* CRC of "[A]"; no parameter, "1", or "1" and "F"
FlipNames == {<<65>>, CMD_PRINT_VERSION,
              <<65, 90>> \o HexStr(crc16_seq(0, Frame(<<65>>, << >>)))}
FlipParamLists == {<< >>, <<<<49>>>>, <<<<49>>, <<70>>>>}
\* the bytes put in place of a byte of the frame: the framing bytes, 'B', NUL
FlipBytes == {PROTO_STX, PROTO_ETX, PROTO_PSC, 66, 0}

InitFlip ==
    /\ Builds
    /\ IdleFirmware
    /\ t_pc = "print"
    /\ t_in \in [name : FlipNames, params : FlipParamLists, at : {0}, byte : {0}]
    /\ t_beyond \in BeyondBytes
    /\ t_pkt = MkPkt(t_in.name, t_in.params)
    /\ t_ret = 0
    /\ t_out = << >>

DecodeFlipped ==
    /\ t_pc = "printed"
    /\ \E k \in 2..(Len(UpToEtx(t_out)) - 1), b \in FlipBytes :
           /\ b # t_out[k]
           /\ LET n == Len(t_out) - 1
                  altered == [SubSeq(t_out, 1, n) EXCEPT ![k] = b]
                  r == proto_parse_pkt_buffer(altered \o <<t_beyond>>, n, ZeroPkt, Env)
              IN  /\ t_pkt' = r.pkt
                  /\ t_ret' = r.ret
                  /\ t_out' = altered
           /\ t_in' = [t_in EXCEPT !.at = k, !.byte = b]
    /\ t_pc' = "flipped"
    /\ UNCHANGED <<crc_check, stack_tail, stream, rx, serial_in, fw, t_beyond>>

NextFlip == PrintCall \/ DecodeFlipped

SpecFlip == InitFlip /\ [][NextFlip]_vars

\* C15 (as claimed): with the CRC check compiled in, a printed frame with one
\* byte between its '[' and ']' replaced by a different byte never decodes as
\* success.
C15_Claim ==
    (t_pc = "flipped" /\ crc_check) => t_ret < 0

(* ---------------------------------------------------------------------- *)
(* Claims about printed packets (SpecCodec)                                *)
(* ---------------------------------------------------------------------- *)
\* '[', the name, ':' and the parameter for each of the param_count
\* parameters in index order, ']': name and parameters as the C strings held
\* by the packet
WireBody(pkt) ==
    Frame(cmd(pkt), [k \in 1..param_count(pkt) |-> params(pkt, k - 1)])

\* the packet of t_in fits its arrays with the terminators
Representable ==
    /\ Len(t_in.name) < MAX_PROTO_CMD
    /\ \A k \in 1..Len(t_in.params) : Len(t_in.params[k]) < MAX_PROTO_PARAM_LEN

\* C16 (as claimed): the bytes written are the body, the CRC in upper-case
\* hexadecimal only when the CRC check is compiled in, and CR.
C16_Claim ==
    (t_pc \in {"printed", "done"})
    => t_out = WireBody(MkPkt(t_in.name, t_in.params))
               \o (IF crc_check THEN HexStr(crc16_seq(0, WireBody(MkPkt(t_in.name, t_in.params))))
                   ELSE << >>)
               \o <<PROTO_CR>>

\* C16 (amended): the bytes written are, in every build, the body, the CRC
\* (initial value 0, folded over the body from '[' through ']') in upper-case
\* hexadecimal without padding, and CR; the packet's crc16 is left at that
\* CRC; when the CRC check is compiled in the decoder computes the same CRC
\* from the printed bytes.
C16_PrintedBytes ==
    LET p == MkPkt(t_in.name, t_in.params)
        c == crc16_seq(0, WireBody(p))
    IN  /\ (t_pc \in {"printed", "done"})
           => t_out = WireBody(p) \o HexStr(c) \o <<PROTO_CR>>
        /\ (t_pc = "printed") => (pkt_crc16(t_pkt) = c /\ SameFields(t_pkt, p))
        /\ Representable
           => /\ WireBody(p) = Frame(t_in.name, t_in.params)
              /\ (t_pc = "done" /\ crc_check) => pkt_crc16(t_pkt) = c

\* "CPV" with the parameters "1" and "" was printed by a build without the
\* CRC check: "[CPV:1:]", the CRC, CR
C16_Witness ==
    /\ t_pc = "printed"
    /\ ~crc_check
    /\ t_in.name = CMD_PRINT_VERSION
    /\ t_in.params = <<<<49>>, << >>>>
    /\ SubSeq(t_out, 1, 8) = <<PROTO_STX, 67, 80, 86, PROTO_PSC, 49, PROTO_PSC, PROTO_ETX>>
    /\ Len(t_out) > 9
    /\ t_out[Len(t_out)] = PROTO_CR

(* ---------------------------------------------------------------------- *)
(* SpecReply: the build with DISABLE_CRC16 defined decodes one frame and   *)
(* answers it                                                              *)
(* ---------------------------------------------------------------------- *)
InitReply ==
    /\ crc_check = FALSE
    /\ stack_tail = << >>
    /\ IdleFirmware
    /\ t_pc = "call"
    /\ t_in \in [frame : ParseFrames, prior : PriorPkts]
    /\ t_beyond \in BeyondBytes
    /\ t_pkt = t_in.prior
    /\ t_ret = 0
    /\ t_out = << >>

NextReply == ParseCall \/ ReplyCall

SpecReply == InitReply /\ [][NextReply]_vars

\* a ']' follows the first '[' of the frame
HasEtxAfterStx(fr) ==
    /\ Has(fr, PROTO_STX)
    /\ \E k \in (FirstStx(fr) + 1)..Len(fr) : fr[k] = PROTO_ETX

\* the frame up to the first ']' that follows its first '['
CutAfterEtx(fr) ==
    SubSeq(fr, 1, Least({k \in (FirstStx(fr) + 1)..Len(fr) : fr[k] = PROTO_ETX}))

\* the bytes are '[' ... ']', the CRC of '[' ... ']' in hexadecimal, CR
CarriesCrc(out) ==
    /\ Len(out) >= 4
    /\ out[1] = PROTO_STX
    /\ out[Len(out)] = PROTO_CR
    /\ \E k \in 2..(Len(out) - 2) :
          /\ out[k] = PROTO_ETX
          /\ SubSeq(out, k + 1, Len(out) - 1) = HexStr(crc16_seq(0, SubSeq(out, 1, k)))

\* C17: in a build without the CRC check every response carries the CRC
\* between its ']' and the CR, and the decoder's result (return value and
\* packet) for a frame with a ']' after its '[' is the result for the frame
\* cut after that ']', whatever follows it.
C17_CrcDisabled ==
    ~crc_check
    => /\ (t_pc = "replied" /\ t_out # << >>) => CarriesCrc(t_out)
       /\ (t_pc = "replied" /\ t_ret # 0) => t_out # << >>
       /\ (t_pc \in {"done", "replied"} /\ HasEtxAfterStx(t_in.frame))
          => \A b \in BeyondBytes :
                LET cut == CutAfterEtx(t_in.frame)
                    r == proto_parse_pkt_buffer(cut \o <<b>>, Len(cut), t_in.prior, Env)
                IN  r.ret = t_ret /\ r.pkt = t_pkt

\* "[A]A1" decoded by a build without the CRC check, where "A1" is not the CRC
\* of "[A]": the command A is answered with "unknown command" and a CRC
C17_Witness ==
    /\ ~crc_check
    /\ t_pc = "replied"
    /\ t_in.frame = <<PROTO_STX, 65, PROTO_ETX, 65>>
    /\ t_in.prior = ZeroPkt
    /\ t_ret = 3
    /\ cmd(t_pkt) = <<65>>
    /\ SubSeq(t_out, 1, 3) = <<PROTO_STX, 65, PROTO_PSC>>
    /\ CarriesCrc(t_out)

(* ---------------------------------------------------------------------- *)
(* SpecBuild: the response builders called on one packet                   *)
(* ---------------------------------------------------------------------- *)
\* packets with 0 to MAX_PROTO_PARAM_COUNT parameters "1", "2", ..., one whose
\* params[0] is full, and one with no parameter counted over old bytes
BuildNames == {<< >>, <<65>>, Rep(90, MAX_PROTO_CMD - 1)}
BuildPkts ==
    {MkPkt(n, [i \in 1..c |-> <<48 + i>>]) :
        n \in BuildNames, c \in 0..MAX_PROTO_PARAM_COUNT}
    \cup {MkPkt(<<65>>, <<Rep(120, MAX_PROTO_PARAM_LEN - 1), <<50>>>>),
          SetParamCount(DirtyPkt, 0)}

\* values up to one byte more than ERR_PROTO_RB_PARAM_OVERFLOW allows
BuildValues ==
    {<< >>, <<49>>, VERSION_CODE} \cup {Rep(120, n) : n \in ParamLens}

\* int16_t error codes
BuildCodes ==
    {ERR_PROTO_SUCCESS, ERR_PROTO_CP_CMD_OVERFLOW, ERR_PROTO_RB_PARAM_OVERFLOW,
     7, -1, 32767, -32768}

\* command packets a response is built for: cleared, "CPV" with a parameter,
\* a name that fills cmd up to its terminator, and the receive packet as the
\* decoder leaves it after a frame with a name of MAX_PROTO_CMD + 1 bytes
BuildRequests ==
    {ZeroPkt, MkPkt(CMD_PRINT_VERSION, <<<<49>>>>),
     MkPkt(Rep(90, MAX_PROTO_CMD - 1), << >>),
     proto_parse_pkt_buffer(Body(Rep(65, MAX_PROTO_CMD + 1), << >>) \o <<0>>,
                            MAX_PROTO_CMD + 2, ZeroPkt,
                            [crc_check |-> FALSE, stack |-> << >>]).pkt}

InitBuild ==
    /\ Builds
    /\ IdleFirmware
    /\ t_pc = "call"
    /\ t_in \in [pkt : BuildPkts, value : BuildValues, code : BuildCodes,
                 request : BuildRequests]
    /\ t_beyond = 0
    /\ t_pkt = t_in.pkt
    /\ t_ret = 0
    /\ t_out = << >>

AppendCall ==
    /\ t_pc = "call"
    /\ LET r == proto_append_response_pkt_param(t_pkt, t_in.value)
       IN  /\ t_pkt' = r.pkt
           /\ t_ret' = r.ret
    /\ t_pc' = "appended"
    /\ UNCHANGED <<crc_check, stack_tail, stream, rx, serial_in, fw,
                   t_in, t_beyond, t_out>>

\* proto_set_response_pkt_error_code, called once and then once more
SetErrorCall ==
    /\ t_pc \in {"call", "set"}
    /\ t_pkt' = proto_set_response_pkt_error_code(t_pkt, t_in.code)
    /\ t_pc' = IF t_pc = "call" THEN "set" ELSE "set again"
    /\ UNCHANGED <<crc_check, stack_tail, stream, rx, serial_in, fw,
                   t_in, t_beyond, t_ret, t_out>>

InitResponseCall ==
    /\ t_pc = "call"
    /\ t_pkt' = proto_init_response_pkt(t_pkt, t_in.request)
    /\ t_pc' = "initialised"
    /\ UNCHANGED <<crc_check, stack_tail, stream, rx, serial_in, fw,
                   t_in, t_beyond, t_ret, t_out>>

\* proto_clear_pkt, called once and then once more
ClearCall ==
    /\ t_pc \in {"call", "cleared"}
    /\ t_pkt' = proto_clear_pkt(t_pkt)
    /\ t_pc' = IF t_pc = "call" THEN "cleared" ELSE "cleared again"
    /\ UNCHANGED <<crc_check, stack_tail, stream, rx, serial_in, fw,
                   t_in, t_beyond, t_ret, t_out>>

NextBuild == AppendCall \/ SetErrorCall \/ InitResponseCall \/ ClearCall

SpecBuild == InitBuild /\ [][NextBuild]_vars

\* the bytes of the packet from struct offset lo to hi are those of q
SameBytes(p, q, lo, hi) ==
    \A j \in lo..hi : Byte(p.mem, j) = Byte(q.mem, j)

\* C18: an append to a packet that holds MAX_PROTO_PARAM_COUNT parameters
\* returns ERR_PROTO_RB_TOO_MANY_PARAMS, an append of a value of more than
\* MAX_PROTO_PARAM_LEN bytes to a packet with room returns
\* ERR_PROTO_RB_PARAM_OVERFLOW, and a failed append leaves the packet as it was.
C18_AppendErrors ==
    (t_pc = "appended")
    => /\ (param_count(t_in.pkt) = MAX_PROTO_PARAM_COUNT)
          => t_ret = ERR_PROTO_RB_TOO_MANY_PARAMS
       /\ (param_count(t_in.pkt) < MAX_PROTO_PARAM_COUNT
             /\ Len(t_in.value) > MAX_PROTO_PARAM_LEN)
          => t_ret = ERR_PROTO_RB_PARAM_OVERFLOW
       /\ (Len(t_in.value) > MAX_PROTO_PARAM_LEN) => t_ret < 0
       /\ (t_ret < 0) => t_pkt = t_in.pkt

\* 51 bytes appended to a packet that holds 2 parameters
C18_Witness ==
    /\ t_pc = "appended"
    /\ param_count(t_in.pkt) = 2
    /\ Len(t_in.value) = MAX_PROTO_PARAM_LEN + 1
    /\ t_ret = ERR_PROTO_RB_PARAM_OVERFLOW
    /\ param_count(t_pkt) = 2

\* C19: an append to a packet with fewer than MAX_PROTO_PARAM_COUNT parameters
\* of a value of at most MAX_PROTO_PARAM_LEN bytes stores the whole value as
\* the new last parameter, adds one to the count, returns the new count and
\* leaves the name and the earlier parameters as they were.
C19_Claim ==
    (/\ t_pc = "appended"
     /\ param_count(t_in.pkt) < MAX_PROTO_PARAM_COUNT
     /\ Len(t_in.value) <= MAX_PROTO_PARAM_LEN)
    => LET n == param_count(t_in.pkt)
       IN  /\ t_ret = n + 1
           /\ param_count(t_pkt) = n + 1
           /\ params(t_pkt, n) = t_in.value
           /\ SameBytes(t_pkt, t_in.pkt, OFF_CMD, ParamOff(n, 0) - 1)

\* C20: proto_set_response_pkt_error_code leaves the decimal string of the
\* code in params[0], a count of 1 where it was 0 and the count it found
\* otherwise, and the name, params[1] to params[3] and crc16 as they were; a
\* second call with the same code changes nothing.
C20_SetErrorCode ==
    /\ [](t_pc \in {"set", "set again"}
          => /\ params(t_pkt, 0) = DecStr(t_in.code)
             /\ param_count(t_pkt) = (IF param_count(t_in.pkt) = 0 THEN 1
                                      ELSE param_count(t_in.pkt))
             /\ SameBytes(t_pkt, t_in.pkt, OFF_CMD, OFF_PARAMS - 1)
             /\ SameBytes(t_pkt, t_in.pkt, ParamOff(1, 0), OFF_PARAM_COUNT - 1)
             /\ pkt_crc16(t_pkt) = pkt_crc16(t_in.pkt)
             /\ t_pkt.oow = t_in.pkt.oow)
    /\ [][(t_pc = "set" /\ t_pc' = "set again") => t_pkt' = t_pkt]_vars

\* -32768 set twice on a packet that held the parameters "1", "2", "3"
C20_Witness ==
    /\ t_pc = "set again"
    /\ t_in.code = -32768
    /\ param_count(t_in.pkt) = 3
    /\ params(t_pkt, 0) = <<45, 51, 50, 55, 54, 56>>
    /\ params(t_pkt, 1) = <<50>>
    /\ param_count(t_pkt) = 3

\* C21: proto_init_response_pkt leaves in the response the name of the
\* command packet, a parameter count of 1, "0" in params[0] and empty
\* params[1] to params[3], whatever the response held; the command packet is
\* another object and is not written.
C21_Claim ==
    (t_pc = "initialised")
    => /\ cmd(t_pkt) = cmd(t_in.request)
       /\ param_count(t_pkt) = 1
       /\ params(t_pkt, 0) = <<48>>
       /\ \A k \in 1..(MAX_PROTO_PARAM_COUNT - 1) : params(t_pkt, k) = << >>

\* C22: proto_clear_pkt leaves every byte of cmd and params, param_count and
\* crc16 at zero, whatever the packet held; a second call changes nothing.
C22_Clear ==
    /\ [](t_pc \in {"cleared", "cleared again"}
          => /\ t_pkt.mem = ZeroPkt.mem
             /\ cmd(t_pkt) = << >>
             /\ \A k \in 0..(MAX_PROTO_PARAM_COUNT - 1) : params(t_pkt, k) = << >>
             /\ param_count(t_pkt) = 0
             /\ pkt_crc16(t_pkt) = 0)
    /\ [][(t_pc = "cleared" /\ t_pc' = "cleared again") => t_pkt' = t_pkt]_vars

\* the packet "ZZ" with the parameters "7", "8", count 0 and crc16 0x1234,
\* cleared twice
C22_Witness ==
    /\ t_pc = "cleared again"
    /\ t_in.pkt = SetParamCount(DirtyPkt, 0)
    /\ pkt_crc16(t_in.pkt) = 4660
    /\ t_pkt = ZeroPkt

(* ---------------------------------------------------------------------- *)
(* Claims about crc16 across calls (SpecCodec)                             *)
(* ---------------------------------------------------------------------- *)
\* C23: the bytes proto_print_response_pkt writes and the crc16 it leaves are
\* the same whatever crc16 held before the call, and so are the result of
\* proto_parse_pkt_buffer on a non-empty frame and the crc16 it leaves.
C23_CrcNotCarried ==
    /\ (t_pc = "printed")
       => \A c \in PriorCrcs :
             LET r == proto_print_response_pkt(
                          SetCrc16(MkPkt(t_in.name, t_in.params), c))
             IN  r.out = t_out /\ pkt_crc16(r.pkt) = pkt_crc16(t_pkt)
    /\ (t_pc = "done")
       => \A c \in PriorCrcs :
             LET n == Len(t_out) - 1
                 r == proto_parse_pkt_buffer(SubSeq(t_out, 1, n) \o <<t_beyond>>, n,
                                             SetCrc16(ZeroPkt, c), Env)
             IN  n > 0 /\ r.ret = t_ret /\ r.pkt = t_pkt

\* "CPV" with the parameter "1" printed from a packet whose crc16 held 0x1234,
\* and decoded by a build with the CRC check into a packet whose crc16 held
\* 0x1234: both leave the CRC of "[CPV:1]"
C23_Witness ==
    /\ t_pc = "done"
    /\ crc_check
    /\ t_in.name = CMD_PRINT_VERSION
    /\ t_in.params = <<<<49>>>>
    /\ t_in.crc = 4660
    /\ t_ret > 0
    /\ pkt_crc16(t_pkt) = crc16_seq(0, Frame(CMD_PRINT_VERSION, <<<<49>>>>))
    /\ pkt_crc16(t_pkt) # 4660

(* ---------------------------------------------------------------------- *)
(* SpecCrc: one call of crc16                                              *)
(* ---------------------------------------------------------------------- *)
\* uint16_t registers: the ends of the range, single bits, the polynomial and
\* mixed values; every uint8_t as data
CrcRegisters == {0, 1, 255, 256, 32768, 65535, CRC16_table[2], pkt_crc16(DirtyPkt)}
CrcBytes == 0..255

InitCrc ==
    /\ Builds
    /\ IdleFirmware
    /\ t_pc = "call"
    /\ t_in \in [crc : CrcRegisters, data : CrcBytes]
    /\ t_beyond = 0
    /\ t_pkt = ZeroPkt
    /\ t_ret = 0
    /\ t_out = << >>

Crc16Call ==
    /\ t_pc = "call"
    /\ t_ret' = crc16(t_in.crc, t_in.data)
    /\ t_pc' = "done"
    /\ UNCHANGED <<crc_check, stack_tail, stream, rx, serial_in, fw,
                   t_in, t_beyond, t_pkt, t_out>>

NextCrc == Crc16Call

SpecCrc == InitCrc /\ [][NextCrc]_vars

\* one shift of a 16-bit CRC register, most significant bit first, with the
\* polynomial x^16 + x^12 + x^5 + 1
CrcShift(reg) ==
    IF reg >= 32768 THEN Xor((reg * 2) % 65536, 4129) ELSE reg * 2

\* the CRC register after the 8 bits of byte b
CrcBitwise(reg, b) ==
    CrcShift(CrcShift(CrcShift(CrcShift(
        CrcShift(CrcShift(CrcShift(CrcShift(Xor(reg, b * 256)))))))))

\* C24: crc16(crc, b) is the table entry at ((crc >> 8) XOR b) AND 0xFF, XOR
\* crc << 8, reduced modulo 2^16; it lies in 0..65535 and is the register of
\* the bit-by-bit MSB-first CRC with polynomial 0x1021 after the byte b; the
\* table entry of b is that CRC of b from a zero register.
C24_Crc16Step ==
    (t_pc = "done")
    => /\ t_ret = Xor(CRC16_table[(Xor(t_in.crc \div 256, t_in.data) % 256) + 1],
                      (t_in.crc * 256) % 65536) % 65536
       /\ t_ret \in 0..65535
       /\ t_ret = CrcBitwise(t_in.crc, t_in.data)
       /\ CRC16_table[t_in.data + 1] = CrcBitwise(0, t_in.data)

\* the register 0x1234 after the byte 0xFF
C24_Witness ==
    /\ t_pc = "done"
    /\ t_in.crc = 4660
    /\ t_in.data = 255
    /\ t_ret = CrcBitwise(4660, 255)
    /\ t_ret # CRC16_table[(Xor(18, 255) % 256) + 1]

(* ---------------------------------------------------------------------- *)
(* Claims about the responses of the poll loop (Spec)                      *)
(* ---------------------------------------------------------------------- *)
DecodeFailed(d) == d.ret < 0
FromDecode(r) == r.src = "decode"

\* the decodes that failed and the responses proc_input wrote for failed
\* decodes, each in order
FailedDecodes == SelectSeq(fw.decoded, DecodeFailed)
DecodeResponses == SelectSeq(fw.tx, FromDecode)

\* the bytes of the frame's name: what follows its first '[' up to the next
\* ':' or ']' or the end of the frame; nothing when the frame has no '['
NameField(fr) ==
    IF ~Has(fr, PROTO_STX) THEN << >>
    ELSE LET from == FirstStx(fr) + 1
             to == Least({k \in from..(Len(fr) + 1) :
                             k = Len(fr) + 1 \/ fr[k] \in {PROTO_PSC, PROTO_ETX}})
         IN  SubSeq(fr, from, to - 1)

\* a response packet as written to the serial line
Wire(name, plist) ==
    Frame(name, plist) \o HexStr(crc16_seq(0, Frame(name, plist))) \o <<PROTO_CR>>

\* C25 (as claimed): the failed decodes and the error responses written for
\* them correspond one to one, in order, at every moment; each response
\* carries the decimal error code as its only parameter and, as its name, the
\* name bytes of the frame that failed (those that fit cmd with its
\* terminator when the frame's name is longer).
C25_Claim ==
    /\ Len(DecodeResponses) = Len(FailedDecodes)
    /\ \A i \in 1..Len(FailedDecodes) :
          LET d == FailedDecodes[i]
              nf == NameField(d.frame)
              nm == IF Len(nf) < MAX_PROTO_CMD THEN nf
                    ELSE SubSeq(nf, 1, MAX_PROTO_CMD - 1)
          IN  i <= Len(DecodeResponses)
              => DecodeResponses[i].out = Wire(nm, <<DecStr(d.ret)>>)

\* the frame is '[' NAME (':' param)* ']' within the bounds of the arrays,
\* followed by its CRC in hexadecimal (which a build without the CRC check
\* does not need)
GoodFrame(fr) ==
    /\ EndsAtEtx(fr)
    /\ \/ fr = Signed(UpToEtx(fr))
       \/ ~crc_check /\ fr = UpToEtx(fr)

\* the packet whose bytes are mem
PktOf(mem) == [mem |-> mem, oow |-> {}]

\* C26 (as claimed): whatever was received before, a good frame handed to the
\* decoder (the bytes accumulated from an empty buffer up to the CR) decodes
\* with a positive return value into exactly its own name and parameters, and
\* proc_input's return value makes loop() call proc_cmd.
C26_Claim ==
    \A i \in 1..Len(fw.decoded) :
        LET d == fw.decoded[i]
            body == UpToEtx(d.frame)
        IN  GoodFrame(d.frame)
            => /\ d.ret > 0
               /\ U8(d.ret) > 0
               /\ cmd(PktOf(d.pkt)) = Field(body, 1)
               /\ param_count(PktOf(d.pkt)) = FieldCount(body) - 1
               /\ \A n \in 2..FieldCount(body) :
                      params(PktOf(d.pkt), n - 2) = Field(body, n)

(* ---------------------------------------------------------------------- *)
(* Claims about the decoder's return value (SpecParse)                     *)
(* ---------------------------------------------------------------------- *)
\* the position (from 1) of the first ']' that follows the first '['
EtxPos(fr) == Len(CutAfterEtx(fr))

\* C27 (as claimed): a successful decode of a non-empty frame returns a count
\* in 1..len; the frame has a ']' after its '[' and the count is the position
\* of that ']', plus at most 4 CRC digits when the CRC is checked; without the
\* CRC check every byte from the '[' to that ']' was taken into the packet:
\* its name, parameter count and parameters are the fields between them.
C27_Claim ==
    (t_pc = "done" /\ Len(t_in.frame) > 0 /\ t_ret >= 0)
    => /\ t_ret \in 1..Len(t_in.frame)
       /\ HasEtxAfterStx(t_in.frame)
       /\ IF crc_check
          THEN t_ret \in EtxPos(t_in.frame)..(EtxPos(t_in.frame) + 4)
          ELSE /\ t_ret = EtxPos(t_in.frame)
               /\ (t_in.prior = ZeroPkt)
                  => LET body == SubSeq(t_in.frame, FirstStx(t_in.frame),
                                        EtxPos(t_in.frame))
                     IN  /\ cmd(t_pkt) = Field(body, 1)
                         /\ param_count(t_pkt) = FieldCount(body) - 1
                         /\ \A n \in 2..FieldCount(body) :
                                params(t_pkt, n - 2) = Field(body, n)

(* ---------------------------------------------------------------------- *)
(* SpecLf: the poll loop on streams with a line feed put in at any place   *)
(* ---------------------------------------------------------------------- *)
\* one or two lines, each "[CPV]", "[CPV]" with its CRC or "[A:1", each
\* followed by a CR
LfLines == {FRAME_CPV, Signed(FRAME_CPV), <<PROTO_STX, 65, PROTO_PSC, 49>>}
LfBases ==
    {Join(<<a>>) : a \in LfLines}
    \cup {Join(<<a, b>>) : a \in LfLines \ {Signed(FRAME_CPV)},
                          b \in LfLines \ {Signed(FRAME_CPV)}}

InsertAt(bytes, p, b) ==
    SubSeq(bytes, 1, p) \o <<b>> \o SubSeq(bytes, p + 1, Len(bytes))

LfStreams ==
    UNION {{InsertAt(base, p, PROTO_NL) : p \in 0..Len(base)} : base \in LfBases}

InitLf ==
    /\ Builds
    /\ stream \in LfStreams
    /\ rx = stream
    /\ serial_in = << >>
    /\ fw = FwInit
    /\ IdleCalls

SpecLf == InitLf /\ [][Next]_vars

NotNL(b) == b # PROTO_NL
StripLf(bytes) == SelectSeq(bytes, NotNL)

\* C28: a line feed read by proc_input changes nothing but ich: it is not
\* stored and hands nothing to the decoder; and whenever proc_input is about
\* to look at the serial line, the frames decoded, the responses written, the
\* buffer and the receive packet are those of the same bytes without their
\* line feeds.
C28_LineFeeds ==
    /\ [](fw.pc = "input"
          => LET bare == StripLf(Consumed)
                 one == Burst(FwInit, bare, 1, Len(bare), Env)
             IN  /\ fw.decoded = one.decoded
                 /\ fw.tx = one.tx
                 /\ fw.cib_len = one.cib_len
                 /\ fw.char_in_buffer = one.char_in_buffer
                 /\ fw.pkt_receive = one.pkt_receive)
    /\ [][(/\ fw.pc = "input"
           /\ serial_in # << >>
           /\ Head(serial_in) = PROTO_NL
           /\ serial_in' = Tail(serial_in))
          => fw' = [fw EXCEPT !.ich = PROTO_NL]]_vars

\* "[C", a line feed, "PV]" and CR were read: "[CPV]" was decoded and
\* dispatched, one response was written
C28_Witness ==
    /\ stream = <<PROTO_STX, 67, PROTO_NL, 80, 86, PROTO_ETX, PROTO_CR>>
    /\ ~crc_check
    /\ rx = << >> /\ serial_in = << >>
    /\ fw.pc = "input"
    /\ Len(fw.decoded) = 1
    /\ fw.decoded[1].frame = FRAME_CPV
    /\ fw.decoded[1].ret = 5
    /\ Len(fw.tx) = 1
    /\ fw.tx[1].src = "cmd"

(* ---------------------------------------------------------------------- *)
(* Claims about every response (Spec)                                      *)
(* ---------------------------------------------------------------------- *)
\* "0", or '-' and a decimal number without leading zero
IsStatus(str) ==
    \/ str = <<48>>
    \/ /\ Len(str) >= 2
       /\ str[1] = 45
       /\ str[2] \in 49..57
       /\ \A k \in 3..Len(str) : str[k] \in 48..57

\* the bytes written are '[', a name, ':', a status, then ':' or ']'
StatusFirst(out) ==
    /\ Len(out) >= 4
    /\ out[1] = PROTO_STX
    /\ \E p \in 2..Len(out), q \in 3..Len(out) :
          /\ p < q
          /\ out[p] = PROTO_PSC
          /\ \A k \in 2..(p - 1) : out[k] \notin {PROTO_PSC, PROTO_ETX}
          /\ out[q] \in {PROTO_PSC, PROTO_ETX}
          /\ \A k \in (p + 1)..(q - 1) : out[k] \notin {PROTO_PSC, PROTO_ETX}
          /\ IsStatus(SubSeq(out, p + 1, q - 1))

\* C29: every response written, by a handler, for a failed decode or for an
\* overflow of the buffer, has a first parameter, which is "0" or a negative
\* decimal number; the packet it was printed from counts at least one
\* parameter.
C29_StatusFirst ==
    /\ \A i \in 1..Len(fw.tx) : StatusFirst(fw.tx[i].out)
    /\ fw.tx # << >> => param_count(fw.pkt_response) >= 1

\* the full buffer was discarded with an overflow response, and the frame that
\* followed was dispatched and answered by its handler
C29_Witness ==
    /\ Len(fw.tx) = 2
    /\ fw.tx[1].src = "overflow"
    /\ fw.tx[2].src = "cmd"
    /\ StatusFirst(fw.tx[1].out)
    /\ StatusFirst(fw.tx[2].out)

(* ---------------------------------------------------------------------- *)
(* Claims about dispatch (Spec)                                            *)
(* ---------------------------------------------------------------------- *)
DecodeSucceeded(d) == d.ret > 0
FromHandler(r) == r.src = "cmd"

\* the decodes that consumed at least one byte and the responses written by
\* proc_cmd, each in order
Dispatchable == SelectSeq(fw.decoded, DecodeSucceeded)
HandlerResponses == SelectSeq(fw.tx, FromHandler)

\* the bytes written begin with '[', the name and ':'
NamedFor(out, name) ==
    /\ Len(out) >= Len(name) + 2
    /\ SubSeq(out, 1, Len(name) + 2) = <<PROTO_STX>> \o name \o <<PROTO_PSC>>

\* C30 (as claimed): for every successful decode that consumed at least one
\* byte proc_input returns a positive value; proc_cmd is pending for the last
\* one or has run for it, once, before the next decode: the handler responses
\* are as many as those decodes (less the pending one) and each is named as
\* its decoded command; when no proc_cmd is pending after such a decode the
\* receive packet is cleared.
C30_Claim ==
    LET pending == IF fw.pc = "cmd" THEN 1 ELSE 0
    IN  /\ \A i \in 1..Len(Dispatchable) : U8(Dispatchable[i].ret) > 0
        /\ Len(HandlerResponses) = Len(Dispatchable) - pending
        /\ \A i \in 1..Len(HandlerResponses) :
              i <= Len(Dispatchable)
              => NamedFor(HandlerResponses[i].out, cmd(PktOf(Dispatchable[i].pkt)))
        /\ (/\ fw.pc = "input"
            /\ fw.decoded # << >>
            /\ fw.decoded[Len(fw.decoded)].ret > 0)
           => fw.pkt_receive.mem = ZeroMem

(* ---------------------------------------------------------------------- *)
(* SpecCmd: loop() polling proc_input while one or two command lines       *)
(* arrive, in the firmware of main.cpp and in the firmware that keeps its  *)
(* settings in the EEPROM, started on an erased and on a written EEPROM    *)
(* ---------------------------------------------------------------------- *)
SetCommands(f) ==
    {CMD_SET_EFFECT, CMD_SET_COLOR, CMD_SET_BRIGHTNESS}
        \cup (IF f.settings THEN {CMD_SET_FIRE_COLOR_PALLET} ELSE {})

\* an EEPROM written by earlier set commands
SavedEeprom ==
    [brightness |-> 68, effect |-> 2, color_top |-> 0,
     color_rgb |-> 11492103, pallet |-> 0]

CmdFirmwares == {FwInit, FwSetup(ErasedEeprom), FwSetup(SavedEeprom)}

\* the set commands without a parameter, "[CSE:5]" and "[CSE:A]" (effect 10,
\* which is MAX_EFFECT), each with its checksum; "[CSE:5]" without one
CmdLines ==
    {Signed(Frame(CMD_SET_EFFECT, << >>)),
     Signed(Frame(CMD_SET_COLOR, << >>)),
     Signed(Frame(CMD_SET_BRIGHTNESS, << >>)),
     Signed(Frame(CMD_SET_FIRE_COLOR_PALLET, << >>)),
     Signed(Frame(CMD_SET_EFFECT, <<<<53>>>>)),
     Signed(Frame(CMD_SET_EFFECT, <<<<65>>>>)),
     Frame(CMD_SET_EFFECT, <<<<53>>>>)}

CmdStreams == {Join(<<a>>) : a \in CmdLines}
                  \cup {Join(<<a, b>>) : a \in CmdLines, b \in CmdLines}

InitCmd ==
    /\ Builds
    /\ stream \in CmdStreams
    /\ rx = stream
    /\ serial_in = << >>
    /\ fw \in CmdFirmwares
    /\ IdleCalls

SpecCmd == InitCmd /\ [][Next]_vars

\* the frame of the last decode
LastFrame(f) == f.decoded[Len(f.decoded)].frame

\* proc_cmd is about to run on a set command that came without a parameter
ZeroParamSet ==
    /\ fw.pc = "cmd"
    /\ fw.decoded # << >>
    /\ NameField(LastFrame(fw)) \in SetCommands(fw)
    /\ ~Has(LastFrame(fw), PROTO_PSC)

\* C31 (as claimed): proc_cmd, run on a set command (CSE, CSC, CSB, and CSFP in
\* the firmware that keeps its settings) that was received without a
\* parameter, writes a response whose status is ERR_PROTO_CP_MISSING_PARAMS
\* (-108) and leaves active_effect, color, brightness, the palette and the
\* EEPROM as they were.
C31_Claim ==
    [][(ZeroParamSet /\ fw'.pc = "input") =>
          /\ Len(fw'.tx) = Len(fw.tx) + 1
          /\ params(fw'.pkt_response, 0) = DecStr(ERR_PROTO_CP_MISSING_PARAMS)
          /\ fw'.active_effect = fw.active_effect
          /\ fw'.color = fw.color
          /\ fw'.brightness = fw.brightness
          /\ fw'.fireColorPallet = fw.fireColorPallet
          /\ fw'.eeprom = fw.eeprom]_vars

\* C32 (as claimed): in every reachable state active_effect is one of the
\* defined effects, OFF up to but excluding MAX_EFFECT, and a CSE command
\* whose parameter is outside that range leaves active_effect unchanged.
C32_Claim ==
    /\ [](fw.active_effect >= OFF /\ fw.active_effect < MAX_EFFECT)
    /\ [][(/\ fw.pc = "cmd"
           /\ fw'.pc = "input"
           /\ cmd(fw.pkt_receive) = CMD_SET_EFFECT
           /\ param_count(fw.pkt_receive) > 0
           /\ LET effectin == strtol16(params(fw.pkt_receive, 0)).val
              IN  effectin < OFF \/ effectin >= MAX_EFFECT)
          => fw'.active_effect = fw.active_effect]_vars

(* ---------------------------------------------------------------------- *)
(* Claims about what the decoder reads and writes (SpecParse)              *)
(* ---------------------------------------------------------------------- *)
\* C33 (as claimed): the decoder returns ERR_PROTO_CP_MISSING_STX only for
\* frames without a '[': a frame that holds a '[' anywhere, its last byte
\* included, gets success or another error.
C33_Claim ==
    (t_pc = "done" /\ t_ret = ERR_PROTO_CP_MISSING_STX)
    => ~Has(t_in.frame, PROTO_STX)

\* C34 (as claimed): every write of the decoder to the name, its terminating
\* NUL included, is at an index 0..9 of cmd, and every write to a parameter,
\* its terminating NUL included, is to a slot 0..3 at an index 0..49.
C34_Claim ==
    t_pc = "done" => t_pkt.oow = {}

\* C35 (as claimed): the decoder reads no byte of the buffer at an index of
\* len or more: the test for ']' that follows the fields reads below len, and
\* what the call returns and stores is the same whatever byte follows the
\* frame in memory.
C35_Claim ==
    t_pc = "done" =>
        /\ EtxTestIndex(t_in.frame \o <<t_beyond>>, Len(t_in.frame), t_in.prior)
               < Len(t_in.frame)
        /\ \A b \in BeyondBytes :
               proto_parse_pkt_buffer(t_in.frame \o <<b>>, Len(t_in.frame),
                                      t_in.prior, Env)
                   = [ret |-> t_ret, pkt |-> t_pkt]

\* C37 (as claimed): a successful decode is determined by the frame: a call
\* on the same frame from any other prior packet, when it succeeds too,
\* returns the same value and leaves the same name, parameter count and
\* parameters.
C37_Claim ==
    (t_pc = "done" /\ t_ret >= 0) =>
        \A q \in PriorPkts :
            LET r == proto_parse_pkt_buffer(t_in.frame \o <<t_beyond>>,
                                            Len(t_in.frame), q, Env)
            IN  r.ret >= 0 =>
                    /\ r.ret = t_ret
                    /\ cmd(r.pkt) = cmd(t_pkt)
                    /\ param_count(r.pkt) = param_count(t_pkt)
                    /\ \A k \in 0..(MAX_PROTO_PARAM_COUNT - 1) :
                           params(r.pkt, k) = params(t_pkt, k)

NotPSC(b) == b # PROTO_PSC

\* the decoded parameters one after the other
ParamsJoined(pkt) ==
    LET part(k) == IF k < param_count(pkt) THEN params(pkt, k) ELSE << >>
    IN  part(0) \o part(1) \o part(2) \o part(3)

\* C38 (as claimed): after a successful decode into a cleared packet of a
\* frame with a ']' after its '[', param_count is the smaller of 4 and the
\* number of ':' between the name and that ']'; the bytes between the first
\* ':' and that ']' that are not separators are, in order, the bytes of the
\* decoded parameters, and each decoded parameter is one whole field of the
\* frame.
C38_Claim ==
    (/\ t_pc = "done"
     /\ t_ret >= 0
     /\ t_in.prior = ZeroPkt
     /\ HasEtxAfterStx(t_in.frame))
    => LET body == SubSeq(t_in.frame, FirstStx(t_in.frame), EtxPos(t_in.frame))
           colons == FieldCount(body) - 1
           n == IF colons < MAX_PROTO_PARAM_COUNT THEN colons
                ELSE MAX_PROTO_PARAM_COUNT
       IN  /\ param_count(t_pkt) = n
           /\ colons > 0 =>
                 ParamsJoined(t_pkt)
                     = SelectSeq(SubSeq(body, FieldEnd(body, 1) + 1, Len(body) - 1),
                                 NotPSC)
           /\ \A k \in 1..n : params(t_pkt, k - 1) = Field(body, k + 1)

(* ---------------------------------------------------------------------- *)
(* The accumulator of proc_input (Spec)                                    *)
(* ---------------------------------------------------------------------- *)
\* C36: cib_len is at most MAX_INPUT_BUFFER_LEN and every byte of
\* char_in_buffer at an index of cib_len or more is zero, in every state; a
\* byte is appended at the index cib_len, below MAX_INPUT_BUFFER_LEN, and
\* changes no other byte; and when proc_input returns (with a decoded frame,
\* or with nothing left to read) cib_len is below MAX_INPUT_BUFFER_LEN.
C36_Accumulator ==
    /\ [](/\ fw.cib_len <= MAX_INPUT_BUFFER_LEN
          /\ \A j \in DOMAIN fw.char_in_buffer : j < fw.cib_len)
    /\ [][/\ fw'.cib_len > fw.cib_len =>
               /\ fw'.cib_len = fw.cib_len + 1
               /\ fw.cib_len < MAX_INPUT_BUFFER_LEN
               /\ \A j \in 0..MAX_INPUT_BUFFER_LEN :
                      j # fw.cib_len =>
                          Byte(fw'.char_in_buffer, j) = Byte(fw.char_in_buffer, j)
          /\ (\/ fw.pc = "input" /\ serial_in = << >> /\ fw' # fw
              \/ fw.pc = "input" /\ fw'.pc = "cmd"
              \/ /\ Len(fw'.decoded) > Len(fw.decoded)
                 /\ fw'.decoded[Len(fw'.decoded)].ret >= 0)
             => fw'.cib_len < MAX_INPUT_BUFFER_LEN]_vars

\* a byte arrived with the buffer full and was not stored; proc_input, with
\* nothing left to read, discarded the 256 bytes with an overflow response
C36_Witness ==
    /\ fw.cib_len = 0
    /\ fw.ich = 122
    /\ fw.char_in_buffer = ZeroMem
    /\ fw.tx # << >>
    /\ fw.tx[Len(fw.tx)].src = "overflow"
    /\ fw.decoded = << >>

====
